---- MODULE Spec2Model ----
(***************************************************************************)
(* Model of the session-key lifecycle of the EFRIS SDK: KeyClient          *)
(* (src/src/key_client.ts), the exceptions it raises and the byte-level    *)
(* helpers it relies on.  JavaScript runs handlers to their next `await`   *)
(* without interruption, so every action below is one such run.            *)
(***************************************************************************)
EXTENDS Integers, Sequences, FiniteSets, TLC

VARIABLES pfx, privateKey, aesKey, aesKeyFetchedAt, aesKeyContentJson,
          clock, advances, calls, lastWriter, normIn, normOut, config, cx,
          send, refresh

vars == <<pfx, privateKey, aesKey, aesKeyFetchedAt, aesKeyContentJson,
          clock, advances, calls, lastWriter, normIn, normOut, config, cx,
          send, refresh>>

cache == <<aesKey, aesKeyFetchedAt, aesKeyContentJson>>

-----------------------------------------------------------------------------
(* Bounds of the model *)

\* number of fetchAesKey calls a behaviour may start (they may overlap)
MaxCalls == 2
\* number of times the wall clock is advanced
MaxAdvances == 3
\* longest key candidate fed to the key-length normalisation
MaxCandLen == 34
\* longest byte sequence that is padded
MaxDataLen == 64
\* longest plain text that is encrypted
MaxTextLen == 33

-----------------------------------------------------------------------------
(* Optional values: JavaScript's undefined is the empty tuple *)

Undefined == <<>>
Some(v) == <<v>>
IsDefined(o) == o # Undefined
Val(o) == o[1]

\* truthiness of an optional string (a sequence): undefined and "" are falsy
TruthyStr(o) == IsDefined(o) /\ Len(Val(o)) > 0
\* truthiness of an optional number: undefined and 0 are falsy
TruthyNum(o) == IsDefined(o) /\ Val(o) # 0

-----------------------------------------------------------------------------
(* Bytes, hex and base64 as Node's Buffer computes them *)

HexDigits == <<"0", "1", "2", "3", "4", "5", "6", "7",
               "8", "9", "a", "b", "c", "d", "e", "f">>

ToHexNibblesSwapped(bytes) ==
    [i \in 1..(2 * Len(bytes)) |->
        LET b == bytes[(i + 1) \div 2]
        IN  IF i % 2 = 1 THEN HexDigits[(b % 16) + 1] ELSE HexDigits[(b \div 16) + 1]]

\* Buffer.toString('hex'): two lower-case digits per byte, high nibble first
ToHex(bytes) ==
    [i \in 1..(2 * Len(bytes)) |->
        LET b == bytes[(i + 1) \div 2]
        IN  IF i % 2 = 1 THEN HexDigits[(b \div 16) + 1] ELSE HexDigits[(b % 16) + 1]]

\* the 6-bit value of an ASCII code in the base64 alphabets Node accepts, or -1
Base64Value(c) ==
    IF c >= 65 /\ c <= 90 THEN c - 65
    ELSE IF c >= 97 /\ c <= 122 THEN c - 71
    ELSE IF c >= 48 /\ c <= 57 THEN c + 4
    ELSE IF c = 43 \/ c = 45 THEN 62
    ELSE IF c = 47 \/ c = 95 THEN 63
    ELSE -1

\* the 6-bit values of the characters of s that belong to the alphabet
Base64Symbols(s) ==
    LET digits == SelectSeq(s, LAMBDA c : Base64Value(c) >= 0)
    IN  [i \in 1..Len(digits) |-> Base64Value(digits[i])]

\* the bytes of base64 symbols v: four symbols give three bytes, a trailing
\* group of two or three symbols gives one or two bytes
Base64Bytes(v) ==
    LET n == Len(v)
        r == n % 4
        count == 3 * (n \div 4) + (IF r = 2 THEN 1 ELSE IF r = 3 THEN 2 ELSE 0)
        sym(k) == IF k <= n THEN v[k] ELSE 0
    IN  [i \in 1..count |->
            LET g == 4 * ((i - 1) \div 3)
                pos == (i - 1) % 3
            IN  IF pos = 0 THEN sym(g + 1) * 4 + (sym(g + 2) \div 16)
                ELSE IF pos = 1 THEN (sym(g + 2) % 16) * 16 + (sym(g + 3) \div 4)
                ELSE (sym(g + 3) % 4) * 64 + sym(g + 4)]

\* Buffer.from(text, 'base64') of the text whose UTF-8 bytes are s: characters
\* outside the alphabet are skipped
Base64Decode(s) == Base64Bytes(Base64Symbols(s))

\* Buffer.slice(0, n)
Slice(bytes, n) == SubSeq(bytes, 1, IF Len(bytes) < n THEN Len(bytes) ELSE n)

-----------------------------------------------------------------------------
(* Key extraction of fetchAesKey *)

ValidKeyLengths == {16, 24, 32}

\* key_client.ts 138-139: base64-decode the RSA plaintext, fall back to the raw bytes
KeyCandidate(aesKeyRaw) ==
    LET decoded == Base64Decode(aesKeyRaw)
    IN  IF Len(decoded) = 0 THEN aesKeyRaw ELSE decoded

NormalizeKeyLengthShort(aesKeyCandidate) ==
    IF Len(aesKeyCandidate) \in ValidKeyLengths THEN aesKeyCandidate
    ELSE Slice(aesKeyCandidate, 16)

\* key_client.ts 141-148
NormalizeKeyLength(aesKeyCandidate) ==
    IF Len(aesKeyCandidate) = 8
    THEN Slice(aesKeyCandidate \o aesKeyCandidate, 16)
    ELSE IF Len(aesKeyCandidate) \in ValidKeyLengths THEN aesKeyCandidate
    ELSE Slice(aesKeyCandidate, 16)

\* key_client.ts 150: the guard before the key is cached
KeyLengthUsable(aesKeyBytes) == Len(aesKeyBytes) \in ValidKeyLengths

\* key_client.ts 141-152: the normalised key, or the EncryptionException thrown
NormalizeAesKey(aesKeyCandidate) ==
    LET key == NormalizeKeyLength(aesKeyCandidate)
    IN  IF KeyLengthUsable(key) THEN [st |-> "key", key |-> key]
        ELSE [st |-> "EncryptionException", key |-> <<>>]

-----------------------------------------------------------------------------
(* Program constants *)

\* key_client.ts 20: _aesKeyTtlSeconds = 23 * 60 * 60
aesKeyTtlSeconds == 23 * 60 * 60

\* Date.now() counts milliseconds; key_client.ts 87, 155, 187 divide by 1000
MsPerSecond == 1000

\* the wall clock (Date.now()) when the client is constructed: any positive instant
StartClock == 1000

\* the steps by which the wall clock is advanced between handlers
ClockSteps == {500, (aesKeyTtlSeconds - 1) * MsPerSecond}

-----------------------------------------------------------------------------
(* Exceptions: src/src/exceptions *)

NoError == [name |-> "none", errorType |-> "none", statusCode |-> Undefined,
            returnCode |-> Undefined, message |-> "none"]

\* exceptions/authentication.ts 7-21
AuthenticationException(message) ==
    [name |-> "AuthenticationException", errorType |-> "AUTHENTICATION_ERROR",
     statusCode |-> Some(401), returnCode |-> Undefined, message |-> message]

\* exceptions/authentication.ts 32-50: (message, statusCode?, returnCode?)
APIException(message, statusCode, returnCode) ==
    [name |-> "APIException", errorType |-> "API_ERROR",
     statusCode |-> statusCode, returnCode |-> returnCode, message |-> message]

\* exceptions/encryption.ts 6-14
EncryptionException(message) ==
    [name |-> "EncryptionException", errorType |-> "ENCRYPTION_ERROR",
     statusCode |-> Undefined, returnCode |-> Undefined, message |-> message]

\* an error that is none of the SDK's exception classes (thrown by a library
\* or by the runtime): it has no errorType
ForeignError(name, message) ==
    [name |-> name, errorType |-> "none", statusCode |-> Undefined,
     returnCode |-> Undefined, message |-> message]

-----------------------------------------------------------------------------
(* Text and bytes as Node's Buffer converts them: src/unnamed/part_001      *)
(* A string is the sequence of its UTF-16 code units, a Buffer the sequence *)
(* of its bytes.                                                            *)

\* the code units of a string of hexadecimal digits such as the cached key
CodeUnits(chars) ==
    [i \in 1..Len(chars) |->
        LET d == CHOOSE k \in 1..16 : HexDigits[k] = chars[i]
        IN  IF d <= 10 THEN 47 + d ELSE 86 + d]

IsHighSurrogate(c) == c >= 55296 /\ c <= 56319
IsLowSurrogate(c) == c >= 56320 /\ c <= 57343

\* the UTF-8 bytes of one code point
Utf8OfCodePoint(cp) ==
    IF cp < 128 THEN <<cp>>
    ELSE IF cp < 2048 THEN <<192 + (cp \div 64), 128 + (cp % 64)>>
    ELSE IF cp < 65536
         THEN <<224 + (cp \div 4096), 128 + ((cp \div 64) % 64), 128 + (cp % 64)>>
    ELSE <<240 + (cp \div 262144), 128 + ((cp \div 4096) % 64),
           128 + ((cp \div 64) % 64), 128 + (cp % 64)>>

RECURSIVE Concat(_, _, _)
\* the parts lo..hi of a sequence of sequences, joined in order
Concat(parts, lo, hi) ==
    IF lo > hi THEN <<>>
    ELSE IF lo = hi THEN parts[lo]
    ELSE Concat(parts, lo, (lo + hi) \div 2) \o Concat(parts, ((lo + hi) \div 2) + 1, hi)

\* Buffer.from(text, 'utf8'): a surrogate pair is one code point of four
\* bytes, an unpaired surrogate is written as U+FFFD
Utf8Encode(s) ==
    LET bytesOf(i) ==
            IF IsHighSurrogate(s[i]) /\ i < Len(s) /\ IsLowSurrogate(s[i + 1])
            THEN Utf8OfCodePoint(65536 + (s[i] - 55296) * 1024 + (s[i + 1] - 56320))
            ELSE IF IsLowSurrogate(s[i]) /\ i > 1 /\ IsHighSurrogate(s[i - 1])
            THEN <<>>
            ELSE IF IsHighSurrogate(s[i]) \/ IsLowSurrogate(s[i])
            THEN <<239, 191, 189>>
            ELSE Utf8OfCodePoint(s[i])
    IN  Concat([i \in 1..Len(s) |-> bytesOf(i)], 1, Len(s))

\* Buffer.toString('utf8'): a well-formed sequence gives its code point,
\* every maximal ill-formed part gives one U+FFFD
Utf8Decode(b) ==
    LET \* the number of bytes a lead byte announces, 0 when it cannot lead
        need(lead) ==
            IF lead < 128 THEN 1
            ELSE IF lead >= 194 /\ lead <= 223 THEN 2
            ELSE IF lead >= 224 /\ lead <= 239 THEN 3
            ELSE IF lead >= 240 /\ lead <= 244 THEN 4
            ELSE 0
        \* the range the second byte must lie in after a lead byte
        secondLow(lead) == IF lead = 224 THEN 160 ELSE IF lead = 240 THEN 144 ELSE 128
        secondHigh(lead) == IF lead = 237 THEN 159 ELSE IF lead = 244 THEN 143 ELSE 191
        isCont(k) == k <= Len(b) /\ b[k] >= 128 /\ b[k] <= 191
        secondOk(i) == i + 1 <= Len(b) /\ b[i + 1] >= secondLow(b[i])
                                       /\ b[i + 1] <= secondHigh(b[i])
        \* how many of the bytes after the lead byte at i go with it: each
        \* must be there and lie in the range of its place
        followers(i) ==
            IF need(b[i]) < 2 \/ ~secondOk(i) THEN 0
            ELSE IF need(b[i]) = 2 \/ ~isCont(i + 2) THEN 1
            ELSE IF need(b[i]) = 3 \/ ~isCont(i + 3) THEN 2
            ELSE 3
        \* the byte at i goes with a lead byte before it
        taken(i) == \E k \in 1..3 : i - k >= 1 /\ followers(i - k) >= k
        \* the code units of one code point
        unitsOfCodePoint(cp) ==
            IF cp < 65536 THEN <<cp>>
            ELSE <<55296 + ((cp - 65536) \div 1024), 56320 + ((cp - 65536) % 1024)>>
        unitsOf(i) ==
            LET lead == b[i]
            IN  IF taken(i) THEN <<>>
                ELSE IF need(lead) = 1 THEN <<lead>>
                ELSE IF need(lead) = 0 \/ followers(i) < need(lead) - 1 THEN <<65533>>
                ELSE IF need(lead) = 2 THEN <<(lead - 192) * 64 + (b[i + 1] - 128)>>
                ELSE IF need(lead) = 3
                THEN <<(lead - 224) * 4096 + (b[i + 1] - 128) * 64 + (b[i + 2] - 128)>>
                ELSE unitsOfCodePoint((lead - 240) * 262144 + (b[i + 1] - 128) * 4096
                                       + (b[i + 2] - 128) * 64 + (b[i + 3] - 128))
    IN  Concat([i \in 1..Len(b) |-> unitsOf(i)], 1, Len(b))

\* the ASCII code of the base64 digit of value v
Base64Char(v) ==
    IF v < 26 THEN 65 + v
    ELSE IF v < 52 THEN 71 + v
    ELSE IF v < 62 THEN v - 4
    ELSE IF v = 62 THEN 43
    ELSE 47

\* Buffer.toString('base64'): four digits per three bytes, padded with '='
Base64Encode(bytes) ==
    LET n == Len(bytes)
        byte(k) == IF k <= n THEN bytes[k] ELSE 0
    IN  [j \in 1..(4 * ((n + 2) \div 3)) |->
            LET g == 3 * ((j - 1) \div 4)
                pos == (j - 1) % 4
            IN  IF pos = 0 THEN Base64Char(byte(g + 1) \div 4)
                ELSE IF pos = 1
                THEN Base64Char((byte(g + 1) % 4) * 16 + (byte(g + 2) \div 16))
                ELSE IF pos = 2
                THEN IF g + 2 > n THEN 61
                     ELSE Base64Char((byte(g + 2) % 16) * 4 + (byte(g + 3) \div 64))
                ELSE IF g + 3 > n THEN 61 ELSE Base64Char(byte(g + 3) % 64)]

\* the value of a hexadecimal digit given by its code, or -1
HexValue(c) ==
    IF c >= 48 /\ c <= 57 THEN c - 48
    ELSE IF c >= 97 /\ c <= 102 THEN c - 87
    ELSE IF c >= 65 /\ c <= 70 THEN c - 55
    ELSE -1

\* /^[0-9a-fA-F]+$/
IsHexText(s) == Len(s) > 0 /\ \A i \in 1..Len(s) : HexValue(s[i]) >= 0

\* Buffer.from(text, 'hex') of hexadecimal digits: one byte per two digits
HexDecode(s) ==
    [i \in 1..(Len(s) \div 2) |-> HexValue(s[2 * i - 1]) * 16 + HexValue(s[2 * i])]

-----------------------------------------------------------------------------
(* CryptoUtils: src/unnamed/part_001 *)

\* part_001 7
AES_BLOCK_SIZE == 16

\* what a function gives back: the value it returns or the error it throws
Returned(v) == [ok |-> TRUE, val |-> v, err |-> NoError]
Thrown(e) == [ok |-> FALSE, val |-> <<>>, err |-> e]

pkcs7PadNoFullBlock(buf) ==
    LET padLen == (AES_BLOCK_SIZE - (Len(buf) % AES_BLOCK_SIZE)) % AES_BLOCK_SIZE
    IN  buf \o [i \in 1..padLen |-> padLen]

\* part_001 13-18, on the bytes of the data
pkcs7Pad(buf) ==
    LET padLen == AES_BLOCK_SIZE - (Len(buf) % AES_BLOCK_SIZE)
    IN  buf \o [i \in 1..padLen |-> padLen]

pkcs7UnpadLastByteOnly(data) ==
    IF Len(data) = 0 THEN Thrown(EncryptionException("Cannot unpad empty string"))
    ELSE LET padLen == data[Len(data)]
         IN  IF padLen < 1 \/ padLen > AES_BLOCK_SIZE
             THEN Thrown(EncryptionException("Invalid PKCS7 padding length"))
             ELSE Returned(SubSeq(data, 1, Len(data) - padLen))

\* part_001 20-34
pkcs7Unpad(data) ==
    IF Len(data) = 0 THEN Thrown(EncryptionException("Cannot unpad empty string"))
    ELSE LET padLen == data[Len(data)]
             \* data.slice(-padLen): the last padLen bytes, or all of them
             first == IF padLen >= Len(data) THEN 1 ELSE Len(data) - padLen + 1
             padding == SubSeq(data, first, Len(data))
         IN  IF padLen < 1 \/ padLen > AES_BLOCK_SIZE
             THEN Thrown(EncryptionException("Invalid PKCS7 padding length"))
             ELSE IF padding # [i \in 1..padLen |-> padLen]
             THEN Thrown(EncryptionException("PKCS7 padding verification failed"))
             ELSE Returned(SubSeq(data, 1, Len(data) - padLen))

normalizeAesKeyAnyLength(key) ==
    IF IsHexText(key) /\ Len(HexDecode(key)) \in ValidKeyLengths
    THEN HexDecode(key)
    ELSE Utf8Encode(key)

\* part_001 40-46
normalizeAesKey(key) ==
    IF IsHexText(key) /\ Len(key) % 2 = 0 /\ Len(HexDecode(key)) \in ValidKeyLengths
    THEN HexDecode(key)
    ELSE Utf8Encode(key)

\* crypto.createCipheriv('aes-<bits>-ecb', keyBuf, null) exists for these key sizes only
CipherExists(keyBuf) == Len(keyBuf) \in ValidKeyLengths

\* The block cipher of the crypto library, stood in for by a keyed
\* permutation of the 16-byte blocks: rotate the block and add the key.
CipherBlock(keyBuf, block) ==
    [i \in 1..AES_BLOCK_SIZE |->
        (block[(i % AES_BLOCK_SIZE) + 1] + keyBuf[((i - 1) % Len(keyBuf)) + 1] + i) % 256]

\* its inverse, computed on its own
DecipherBlock(keyBuf, block) ==
    [j \in 1..AES_BLOCK_SIZE |->
        LET i == IF j = 1 THEN AES_BLOCK_SIZE ELSE j - 1
        IN  (block[i] + 512 - keyBuf[((i - 1) % Len(keyBuf)) + 1] - i) % 256]

\* ECB: every block on its own, no chaining (data is a whole number of blocks)
EcbEncrypt(keyBuf, data) ==
    LET blocks == [k \in 1..(Len(data) \div AES_BLOCK_SIZE) |->
                      CipherBlock(keyBuf, SubSeq(data, AES_BLOCK_SIZE * (k - 1) + 1,
                                                 AES_BLOCK_SIZE * k))]
    IN  [i \in 1..Len(data) |->
            blocks[((i - 1) \div AES_BLOCK_SIZE) + 1][((i - 1) % AES_BLOCK_SIZE) + 1]]

EcbDecrypt(keyBuf, data) ==
    LET blocks == [k \in 1..(Len(data) \div AES_BLOCK_SIZE) |->
                      DecipherBlock(keyBuf, SubSeq(data, AES_BLOCK_SIZE * (k - 1) + 1,
                                                   AES_BLOCK_SIZE * k))]
    IN  [i \in 1..Len(data) |->
            blocks[((i - 1) \div AES_BLOCK_SIZE) + 1][((i - 1) % AES_BLOCK_SIZE) + 1]]

\* the gzip magic number: part_001 81
GzipMagic == <<31, 139>>

\* a compressed stream, stood in for by a frame: magic, payload, length byte
Gzip(bytes) == GzipMagic \o bytes \o <<Len(bytes) % 256>>

HasGzipMagic(bytes) == Len(bytes) >= 2 /\ SubSeq(bytes, 1, 2) = GzipMagic

\* zlib.gunzipSync: the payload, or the library's error for a corrupt stream
gunzipSync(bytes) ==
    IF HasGzipMagic(bytes) /\ Len(bytes) >= 3 /\ bytes[Len(bytes)] = (Len(bytes) - 3) % 256
    THEN Returned(SubSeq(bytes, 3, Len(bytes) - 1))
    ELSE Thrown(ForeignError("Error", "incorrect header check"))

encryptAesEcbOneBytePerUnit(plaintext, key) ==
    LET keyBuf == normalizeAesKey(key)
    IN  IF Len(keyBuf) \notin ValidKeyLengths
        THEN Thrown(EncryptionException("AES key must be 16/24/32 bytes"))
        ELSE Returned(Base64Encode(EcbEncrypt(keyBuf,
                 pkcs7Pad([i \in 1..Len(plaintext) |-> plaintext[i] % 256]))))

\* part_001 52-64
encryptAesEcb(plaintext, key) ==
    LET keyBuf == normalizeAesKey(key)
    IN  IF Len(keyBuf) \notin ValidKeyLengths
        THEN Thrown(EncryptionException("AES key must be 16/24/32 bytes"))
        ELSE Returned(Base64Encode(EcbEncrypt(keyBuf, pkcs7Pad(Utf8Encode(plaintext)))))

\* part_001 87-106: the encryptCode '2' branch on the decoded bytes
DecryptBytes(dataBytes, key) ==
    IF ~TruthyStr(key) THEN Thrown(EncryptionException("AES key required for decrypt"))
    ELSE LET keyBuf == normalizeAesKey(Val(key))
         IN  IF Len(dataBytes) % AES_BLOCK_SIZE # 0
             THEN Thrown(EncryptionException("Ciphertext length not multiple of 16"))
             ELSE IF ~CipherExists(keyBuf)
             THEN Thrown(ForeignError("Error", "Unknown cipher"))
             ELSE pkcs7Unpad(EcbDecrypt(keyBuf, dataBytes))

\* part_001 70-109
decryptAesEcb(ciphertextB64, key, encryptCode, zipCode) ==
    IF Len(ciphertextB64) = 0 THEN Returned(<<>>)
    ELSE LET decoded == Base64Decode(ciphertextB64)
             unzipped == IF zipCode # "1" THEN Returned(decoded)
                         ELSE IF ~HasGzipMagic(decoded)
                         THEN Thrown(EncryptionException("zipCode=1 but data is not gzipped"))
                         ELSE gunzipSync(decoded)
         IN  IF ~unzipped.ok THEN unzipped
             ELSE IF encryptCode # "2" THEN Returned(Utf8Decode(unzipped.val))
             ELSE LET decrypted == DecryptBytes(unzipped.val, key)
                  IN  IF ~decrypted.ok THEN decrypted
                      ELSE Returned(Utf8Decode(decrypted.val))

-----------------------------------------------------------------------------
(* Structured values and their JSON text: JSON.stringify and JSON.parse as  *)
(* part_001 181, 220 and 270 use them.  The numbers of the model are the    *)
(* integers.                                                                *)

JNull == [t |-> "null", n |-> 0, s |-> <<>>, m |-> <<>>]
JBool(b) == [t |-> "bool", n |-> IF b THEN 1 ELSE 0, s |-> <<>>, m |-> <<>>]
JNum(n) == [t |-> "num", n |-> n, s |-> <<>>, m |-> <<>>]
JStr(s) == [t |-> "str", n |-> 0, s |-> s, m |-> <<>>]
\* an object: its properties in order, each a name k and a value v
JObj(members) == [t |-> "obj", n |-> 0, s |-> <<>>, m |-> members]
\* an array: its items in order
JArr(items) ==
    [t |-> "arr", n |-> 0, s |-> <<>>,
     m |-> [i \in 1..Len(items) |-> [k |-> <<>>, v |-> items[i]]]]
Member(k, v) == [k |-> k, v |-> v]

RECURSIVE Digits(_)
\* the decimal digits of a natural number
Digits(n) == IF n < 10 THEN <<48 + n>> ELSE Digits(n \div 10) \o <<48 + (n % 10)>>

NumberText(n) == IF n < 0 THEN <<45>> \o Digits(0 - n) ELSE Digits(n)

HexDigitCode(d) == IF d < 10 THEN 48 + d ELSE 87 + d

\* \uXXXX
UnicodeEscape(c) ==
    <<92, 117, HexDigitCode(c \div 4096), HexDigitCode((c \div 256) % 16),
      HexDigitCode((c \div 16) % 16), HexDigitCode(c % 16)>>

\* the inside of a JSON string: quote, backslash, control characters and
\* unpaired surrogates are escaped
QuoteChars(s) ==
    LET paired(i) ==
            \/ IsHighSurrogate(s[i]) /\ i < Len(s) /\ IsLowSurrogate(s[i + 1])
            \/ IsLowSurrogate(s[i]) /\ i > 1 /\ IsHighSurrogate(s[i - 1])
        quoted(i) ==
            LET c == s[i]
            IN  IF c = 34 THEN <<92, 34>>
                ELSE IF c = 92 THEN <<92, 92>>
                ELSE IF c = 8 THEN <<92, 98>>
                ELSE IF c = 12 THEN <<92, 102>>
                ELSE IF c = 10 THEN <<92, 110>>
                ELSE IF c = 13 THEN <<92, 114>>
                ELSE IF c = 9 THEN <<92, 116>>
                ELSE IF c < 32 THEN UnicodeEscape(c)
                ELSE IF (IsHighSurrogate(c) \/ IsLowSurrogate(c)) /\ ~paired(i)
                THEN UnicodeEscape(c)
                ELSE <<c>>
    IN  Concat([i \in 1..Len(s) |-> quoted(i)], 1, Len(s))

RECURSIVE JsonStringify(_)
RECURSIVE StringifyMembers(_, _)
\* JSON.stringify(value)
JsonStringify(v) ==
    IF v.t = "null" THEN <<110, 117, 108, 108>>
    ELSE IF v.t = "bool"
    THEN (IF v.n = 1 THEN <<116, 114, 117, 101>> ELSE <<102, 97, 108, 115, 101>>)
    ELSE IF v.t = "num" THEN NumberText(v.n)
    ELSE IF v.t = "str" THEN <<34>> \o QuoteChars(v.s) \o <<34>>
    ELSE IF v.t = "obj" THEN <<123>> \o StringifyMembers(v.m, TRUE) \o <<125>>
    ELSE <<91>> \o StringifyMembers(v.m, FALSE) \o <<93>>

StringifyMembers(m, named) ==
    IF m = <<>> THEN <<>>
    ELSE (IF named THEN <<34>> \o QuoteChars(Head(m).k) \o <<34, 58>> ELSE <<>>)
            \o JsonStringify(Head(m).v)
            \o (IF Len(m) > 1 THEN <<44>> \o StringifyMembers(Tail(m), named) ELSE <<>>)

\* the outcome of a parsing step: the value read and the position after it
Parsed(v, next) == [ok |-> TRUE, v |-> v, next |-> next]
ParseFail == [ok |-> FALSE, v |-> JNull, next |-> 0]

RECURSIVE SkipWs(_, _)
SkipWs(s, i) ==
    IF i <= Len(s) /\ s[i] \in {32, 9, 10, 13} THEN SkipWs(s, i + 1) ELSE i

RECURSIVE ParseChars(_, _, _)
\* the characters of a string from position i up to its closing quote
ParseChars(s, i, acc) ==
    IF i > Len(s) THEN ParseFail
    ELSE IF s[i] = 34 THEN Parsed(JStr(acc), i + 1)
    ELSE IF s[i] < 32 THEN ParseFail
    ELSE IF s[i] # 92 THEN ParseChars(s, i + 1, Append(acc, s[i]))
    ELSE IF i + 1 > Len(s) THEN ParseFail
    ELSE LET e == s[i + 1]
         IN  IF e \in {34, 92, 47} THEN ParseChars(s, i + 2, Append(acc, e))
             ELSE IF e = 98 THEN ParseChars(s, i + 2, Append(acc, 8))
             ELSE IF e = 102 THEN ParseChars(s, i + 2, Append(acc, 12))
             ELSE IF e = 110 THEN ParseChars(s, i + 2, Append(acc, 10))
             ELSE IF e = 114 THEN ParseChars(s, i + 2, Append(acc, 13))
             ELSE IF e = 116 THEN ParseChars(s, i + 2, Append(acc, 9))
             ELSE IF e = 117 /\ i + 5 <= Len(s)
                       /\ \A k \in (i + 2)..(i + 5) : HexValue(s[k]) >= 0
             THEN ParseChars(s, i + 6,
                     Append(acc, HexValue(s[i + 2]) * 4096 + HexValue(s[i + 3]) * 256
                                   + HexValue(s[i + 4]) * 16 + HexValue(s[i + 5])))
             ELSE ParseFail

IsDigit(c) == c >= 48 /\ c <= 57

RECURSIVE ParseDigits(_, _, _)
ParseDigits(s, i, acc) ==
    IF i <= Len(s) /\ IsDigit(s[i]) THEN ParseDigits(s, i + 1, 10 * acc + (s[i] - 48))
    ELSE Parsed(JNum(acc), i)

\* -?(0|[1-9][0-9]*)
ParseNumber(s, i) ==
    LET neg == s[i] = 45
        d == IF neg THEN i + 1 ELSE i
    IN  IF d > Len(s) \/ ~IsDigit(s[d]) THEN ParseFail
        ELSE IF s[d] = 48 /\ d + 1 <= Len(s) /\ IsDigit(s[d + 1]) THEN ParseFail
        ELSE LET r == ParseDigits(s, d, 0)
             IN  Parsed(JNum(IF neg THEN 0 - r.v.n ELSE r.v.n), r.next)

\* a property read from the text: a repeated name keeps its place and takes
\* the later value
PutMember(acc, k, v) ==
    IF \E i \in 1..Len(acc) : acc[i].k = k
    THEN [i \in 1..Len(acc) |-> IF acc[i].k = k THEN Member(k, v) ELSE acc[i]]
    ELSE Append(acc, Member(k, v))

IsWord(s, i, word) == i + Len(word) - 1 <= Len(s) /\ SubSeq(s, i, i + Len(word) - 1) = word

RECURSIVE ParseValue(_, _)
RECURSIVE ParseMembers(_, _, _)
RECURSIVE ParseElements(_, _, _)
ParseValue(s, from) ==
    LET i == SkipWs(s, from)
    IN  IF i > Len(s) THEN ParseFail
        ELSE IF s[i] = 123
        THEN LET j == SkipWs(s, i + 1)
             IN  IF j <= Len(s) /\ s[j] = 125 THEN Parsed(JObj(<<>>), j + 1)
                 ELSE ParseMembers(s, j, <<>>)
        ELSE IF s[i] = 91
        THEN LET j == SkipWs(s, i + 1)
             IN  IF j <= Len(s) /\ s[j] = 93 THEN Parsed(JArr(<<>>), j + 1)
                 ELSE ParseElements(s, j, <<>>)
        ELSE IF s[i] = 34 THEN ParseChars(s, i + 1, <<>>)
        ELSE IF s[i] = 45 \/ IsDigit(s[i]) THEN ParseNumber(s, i)
        ELSE IF IsWord(s, i, <<110, 117, 108, 108>>) THEN Parsed(JNull, i + 4)
        ELSE IF IsWord(s, i, <<116, 114, 117, 101>>) THEN Parsed(JBool(TRUE), i + 4)
        ELSE IF IsWord(s, i, <<102, 97, 108, 115, 101>>) THEN Parsed(JBool(FALSE), i + 5)
        ELSE ParseFail

\* "name": value pairs from position i on, up to the closing brace
ParseMembers(s, i, acc) ==
    IF i > Len(s) \/ s[i] # 34 THEN ParseFail
    ELSE LET name == ParseChars(s, i + 1, <<>>)
         IN  IF ~name.ok THEN ParseFail
             ELSE LET colon == SkipWs(s, name.next)
                  IN  IF colon > Len(s) \/ s[colon] # 58 THEN ParseFail
                      ELSE LET val == ParseValue(s, colon + 1)
                           IN  IF ~val.ok THEN ParseFail
                               ELSE LET e == SkipWs(s, val.next)
                                        acc2 == PutMember(acc, name.v.s, val.v)
                                    IN  IF e > Len(s) THEN ParseFail
                                        ELSE IF s[e] = 44
                                        THEN ParseMembers(s, SkipWs(s, e + 1), acc2)
                                        ELSE IF s[e] = 125 THEN Parsed(JObj(acc2), e + 1)
                                        ELSE ParseFail

\* items from position i on, up to the closing bracket
ParseElements(s, i, acc) ==
    LET val == ParseValue(s, i)
    IN  IF ~val.ok THEN ParseFail
        ELSE LET e == SkipWs(s, val.next)
                 acc2 == Append(acc, val.v)
             IN  IF e > Len(s) THEN ParseFail
                 ELSE IF s[e] = 44 THEN ParseElements(s, e + 1, acc2)
                 ELSE IF s[e] = 93 THEN Parsed(JArr(acc2), e + 1)
                 ELSE ParseFail

\* JSON.parse(text): the value, or the SyntaxError it throws
JsonParse(text) ==
    LET r == ParseValue(text, 1)
    IN  IF r.ok /\ SkipWs(text, r.next) > Len(text)
        THEN [ok |-> TRUE, val |-> r.v, err |-> NoError]
        ELSE [ok |-> FALSE, val |-> JNull, err |-> ForeignError("SyntaxError", "Unexpected token")]

-----------------------------------------------------------------------------
(* Envelopes: src/unnamed/part_001 115-277 *)

RECURSIVE WeightedSum(_, _, _)
\* the sum of i * s[i] over the positions lo..hi of s
WeightedSum(s, lo, hi) ==
    IF lo > hi THEN 0
    ELSE IF lo = hi THEN lo * s[lo]
    ELSE WeightedSum(s, lo, (lo + hi) \div 2) + WeightedSum(s, ((lo + hi) \div 2) + 1, hi)

\* the number a private key enters its signatures with
KeySeed(signingKey) == IF signingKey = "loaded" THEN 77 ELSE 0

\* part_001 115-121: the base64 text of the signature of data under the key;
\* the RSA-SHA1 signature is stood in for by a three-byte digest of key and data
signRsaSha1(data, signingKey) ==
    Base64Encode(<<(WeightedSum(data, 1, Len(data)) + KeySeed(signingKey)) % 256,
                   (WeightedSum(data, 1, Len(data)) \div 256 + 3 * KeySeed(signingKey)) % 256,
                   (Len(data) + KeySeed(signingKey)) % 256>>)

\* part_001 127-165, as the builders call it (user, longitude and latitude at
\* their fixed values); the random exchange identifier, the request time and
\* the constant extendField are left out
buildGlobalInfo(interfaceCode, tin, deviceNo, brn, taxpayerId) ==
    [appId |-> "AP04", version |-> "1.1.20191201", interfaceCode |-> interfaceCode,
     requestCode |-> "TP", responseCode |-> "TA", userName |-> "admin",
     deviceMAC |-> "FFFFFFFFFFFF", deviceNo |-> deviceNo, tin |-> tin, brn |-> brn,
     taxpayerID |-> IF taxpayerId = "" THEN "1" ELSE taxpayerId,
     longitude |-> "32.5825", latitude |-> "0.3476", agentType |-> "0"]

DataDescription(codeType, encryptCode, zipCode) ==
    [codeType |-> codeType, encryptCode |-> encryptCode, zipCode |-> zipCode]

\* the request envelope both builders assemble
RequestEnvelope(content, signature, dataDescription, globalInfo) ==
    [data |-> [content |-> content, signature |-> signature,
               dataDescription |-> dataDescription],
     globalInfo |-> globalInfo,
     returnStateInfo |-> [returnCode |-> "", returnMessage |-> ""]]

buildEncryptedRequestSignsPlaintext(content, key, interfaceCode, tin, deviceNo, brn, signingKey, taxpayerId) ==
    LET jsonContent == JsonStringify(content)
        encrypted == encryptAesEcb(jsonContent, key)
    IN  IF ~encrypted.ok THEN encrypted
        ELSE Returned(RequestEnvelope(encrypted.val, signRsaSha1(jsonContent, signingKey),
                                      DataDescription("1", "2", "0"),
                                      buildGlobalInfo(interfaceCode, tin, deviceNo, brn,
                                                      taxpayerId)))

\* part_001 171-201
buildEncryptedRequest(content, key, interfaceCode, tin, deviceNo, brn, signingKey, taxpayerId) ==
    LET jsonContent == JsonStringify(content)
        encrypted == encryptAesEcb(jsonContent, key)
    IN  IF ~encrypted.ok THEN encrypted
        ELSE Returned(RequestEnvelope(encrypted.val, signRsaSha1(encrypted.val, signingKey),
                                      DataDescription("1", "2", "0"),
                                      buildGlobalInfo(interfaceCode, tin, deviceNo, brn,
                                                      taxpayerId)))

\* part_001 219: content && Object.keys(content).length > 0
HasContent(content) == content.t \in {"obj", "arr"} /\ Len(content.m) > 0

buildUnencryptedRequestAlwaysSigns(content, interfaceCode, tin, deviceNo, brn, signingKey, taxpayerId) ==
    LET contentB64 == IF HasContent(content)
                      THEN Base64Encode(Utf8Encode(JsonStringify(content))) ELSE <<>>
        signature == IF IsDefined(signingKey)
                     THEN signRsaSha1(contentB64, Val(signingKey)) ELSE <<>>
    IN  RequestEnvelope(contentB64, signature, DataDescription("0", "1", "0"),
                        buildGlobalInfo(interfaceCode, tin, deviceNo, brn, taxpayerId))

\* part_001 207-241: the private key is optional
buildUnencryptedRequest(content, interfaceCode, tin, deviceNo, brn, signingKey, taxpayerId) ==
    LET contentB64 == IF HasContent(content)
                      THEN Base64Encode(Utf8Encode(JsonStringify(content))) ELSE <<>>
        signature == IF HasContent(content) /\ IsDefined(signingKey)
                     THEN signRsaSha1(contentB64, Val(signingKey)) ELSE <<>>
    IN  RequestEnvelope(contentB64, signature, DataDescription("0", "1", "0"),
                        buildGlobalInfo(interfaceCode, tin, deviceNo, brn, taxpayerId))

\* data.content of a response: not there, a text, or (once unwrapped) a value
ContentAbsent == [form |-> "absent", text |-> <<>>, value |-> JNull]
ContentText(text) == [form |-> "text", text |-> text, value |-> JNull]
ContentValue(v) == [form |-> "value", text |-> <<>>, value |-> v]

\* a response envelope: data and its dataDescription may be missing, and so
\* may each flag
ResponseEnvelope(data) == [data |-> data]
ResponseData(content, dataDescription) ==
    [content |-> content, dataDescription |-> dataDescription]

\* flag || '0'
OrZero(flag) == IF flag = Undefined \/ flag = Some("") THEN "0" ELSE Val(flag)

\* part_001 273: the message the wrapping EncryptionException carries
ProcessingFailed(message) ==
    CASE message = "Encrypted response but no AES key provided" ->
            "Response processing failed: Encrypted response but no AES key provided"
      [] message = "AES key required for decrypt" ->
            "Response processing failed: AES key required for decrypt"
      [] message = "Ciphertext length not multiple of 16" ->
            "Response processing failed: Ciphertext length not multiple of 16"
      [] message = "Unknown cipher" -> "Response processing failed: Unknown cipher"
      [] message = "Cannot unpad empty string" ->
            "Response processing failed: Cannot unpad empty string"
      [] message = "Invalid PKCS7 padding length" ->
            "Response processing failed: Invalid PKCS7 padding length"
      [] message = "PKCS7 padding verification failed" ->
            "Response processing failed: PKCS7 padding verification failed"
      [] message = "zipCode=1 but data is not gzipped" ->
            "Response processing failed: zipCode=1 but data is not gzipped"
      [] message = "incorrect header check" ->
            "Response processing failed: incorrect header check"
      [] OTHER -> "Response processing failed: Unexpected token"

DecodeContentByEncryptCode(contentB64, codeType, encryptCode, zipCode, key) ==
    IF codeType = "1" \/ encryptCode = "2"
    THEN IF ~TruthyStr(key)
         THEN Thrown(EncryptionException("Encrypted response but no AES key provided"))
         ELSE decryptAesEcb(contentB64, key, encryptCode, zipCode)
    ELSE LET decodedBytes == Base64Decode(contentB64)
             unzipped == IF zipCode = "1" THEN gunzipSync(decodedBytes)
                         ELSE Returned(decodedBytes)
         IN  IF ~unzipped.ok THEN unzipped ELSE Returned(Utf8Decode(unzipped.val))

\* part_001 261-268: the text of the content
DecodeContent(contentB64, codeType, encryptCode, zipCode, key) ==
    IF codeType = "1"
    THEN IF ~TruthyStr(key)
         THEN Thrown(EncryptionException("Encrypted response but no AES key provided"))
         ELSE decryptAesEcb(contentB64, key, encryptCode, zipCode)
    ELSE LET decodedBytes == Base64Decode(contentB64)
             unzipped == IF zipCode = "1" THEN gunzipSync(decodedBytes)
                         ELSE Returned(decodedBytes)
         IN  IF ~unzipped.ok THEN unzipped ELSE Returned(Utf8Decode(unzipped.val))

unwrapResponseKeepsText(responseJson, key) ==
    LET dataSection == IF IsDefined(responseJson.data) THEN Val(responseJson.data)
                       ELSE ResponseData(ContentAbsent, Undefined)
        contentB64 == IF dataSection.content.form = "text" THEN dataSection.content.text
                      ELSE <<>>
    IN  Returned(responseJson)

\* part_001 247-277: the envelope with its content replaced, or the error
unwrapResponse(responseJson, key) ==
    LET dataSection == IF IsDefined(responseJson.data) THEN Val(responseJson.data)
                       ELSE ResponseData(ContentAbsent, Undefined)
        contentB64 == IF dataSection.content.form = "text" THEN dataSection.content.text
                      ELSE <<>>
        dataDesc == IF IsDefined(dataSection.dataDescription)
                    THEN Val(dataSection.dataDescription)
                    ELSE DataDescription(Undefined, Undefined, Undefined)
        contentStr == DecodeContent(contentB64, OrZero(dataDesc.codeType),
                                    OrZero(dataDesc.encryptCode), OrZero(dataDesc.zipCode),
                                    key)
        decodedContent == JsonParse(contentStr.val)
    IN  IF Len(contentB64) = 0 THEN Returned(responseJson)
        ELSE IF ~contentStr.ok
        THEN Thrown(EncryptionException(ProcessingFailed(contentStr.err.message)))
        ELSE IF ~decodedContent.ok
        THEN Thrown(EncryptionException(ProcessingFailed(decodedContent.err.message)))
        ELSE Returned(ResponseEnvelope(Some(ResponseData(ContentValue(decodedContent.val),
                                                         dataSection.dataDescription))))

-----------------------------------------------------------------------------
(* The T104 responses the key-exchange endpoint may give *)

\* a field of the decoded content: absent, null, "" or the base64 of an RSA
\* ciphertext, which privateDecrypt either rejects or turns into `plain`
FAbsent == [st |-> "absent", rsaOk |-> FALSE, plain |-> <<>>]
FNull == [st |-> "null", rsaOk |-> FALSE, plain |-> <<>>]
FEmpty == [st |-> "empty", rsaOk |-> FALSE, plain |-> <<>>]
FGarbled == [st |-> "b64", rsaOk |-> FALSE, plain |-> <<>>]
FKey(plain) == [st |-> "b64", rsaOk |-> TRUE, plain |-> plain]

\* RSA plaintexts: n bytes outside the base64 alphabet, and n base64 letters
RawBytes(n, seed) == [i \in 1..n |-> 128 + ((seed + i) % 128)]
Base64Text(n, seed) == [i \in 1..n |-> 65 + ((seed + 7 * i) % 26)]

NoFields == [passowrdDes |-> FAbsent, passwordDes |-> FAbsent]

\* data.content: missing, "", base64 of text that is not JSON, or base64 of an object
ContentMissing == [st |-> "missing", json |-> NoFields]
ContentEmpty == [st |-> "empty", json |-> NoFields]
ContentNotJson == [st |-> "notjson", json |-> NoFields]
ContentObject(f1, f2) == [st |-> "object", json |-> [passowrdDes |-> f1, passwordDes |-> f2]]

NoResponse == [kind |-> "none", returnMessage |-> Undefined, returnCode |-> Undefined,
               content |-> ContentMissing]
\* axios rejects: connection error, timeout, or the exchange was cancelled
TransportError == [NoResponse EXCEPT !.kind = "error"]
Cancelled == [NoResponse EXCEPT !.kind = "cancelled"]
\* the body is the JSON value null
NullBody == [NoResponse EXCEPT !.kind = "null"]
Body(returnMessage, returnCode, content) ==
    [kind |-> "json", returnMessage |-> returnMessage, returnCode |-> returnCode,
     content |-> content]

KeyA == RawBytes(16, 0)
KeyB == Base64Text(32, 3)

FieldPairs ==
    {<<FKey(KeyA), FAbsent>>, <<FAbsent, FKey(KeyB)>>, <<FKey(KeyA), FKey(KeyB)>>,
     <<FNull, FKey(KeyB)>>, <<FEmpty, FKey(KeyB)>>, <<FKey(KeyA), FEmpty>>,
     <<FAbsent, FAbsent>>, <<FEmpty, FAbsent>>, <<FNull, FNull>>,
     <<FGarbled, FAbsent>>,
     <<FKey(RawBytes(8, 1)), FAbsent>>, <<FKey(RawBytes(5, 2)), FAbsent>>,
     <<FKey(RawBytes(20, 4)), FAbsent>>, <<FKey(<<>>), FAbsent>>}

\* one response of each kind fetchAesKey tells apart, for overlapping calls
Responses ==
    {TransportError, Cancelled,
     Body(Some("FAIL"), Some("45"), ContentMissing),
     Body(Some("SUCCESS"), Some("00"), ContentMissing),
     Body(Some("SUCCESS"), Some("00"), ContentObject(FAbsent, FAbsent)),
     Body(Some("SUCCESS"), Some("00"), ContentObject(FGarbled, FAbsent)),
     Body(Some("SUCCESS"), Some("00"), ContentObject(FKey(RawBytes(5, 2)), FAbsent)),
     Body(Some("SUCCESS"), Some("00"), ContentObject(FKey(KeyA), FAbsent)),
     Body(Some("SUCCESS"), Some("00"), ContentObject(FAbsent, FKey(KeyB)))}

\* the responses a single handshake is checked against
HandshakeResponses ==
    {TransportError, Cancelled, NullBody,
     Body(Undefined, Undefined, ContentMissing),
     Body(Some("FAIL"), Some("45"), ContentMissing),
     Body(Some("FAIL"), Undefined, ContentObject(FKey(KeyA), FAbsent)),
     Body(Some("success"), Some("00"), ContentObject(FKey(KeyA), FAbsent)),
     Body(Some("SUCCESS"), Some("00"), ContentMissing),
     Body(Some("SUCCESS"), Some("00"), ContentEmpty),
     Body(Some("SUCCESS"), Some("00"), ContentNotJson)}
    \cup {Body(Some("SUCCESS"), Some("00"), ContentObject(fp[1], fp[2])) : fp \in FieldPairs}

-----------------------------------------------------------------------------
(* State *)

CallIds == 1..MaxCalls

\* the states of the key container file: readable with a key, not there,
\* protected by another password, or holding no key bag
PfxStates == {"ok", "missing", "wrongPassword", "noKey"}

\* one fetchAesKey call: where it is, its argument, the path it took, the
\* exchanges it made, the request it posted, the response it got, what it
\* returned or threw
IdleCall == [pc |-> "idle", force |-> FALSE, path |-> "none", exchanges |-> 0,
             overlapped |-> FALSE, request |-> Undefined, resp |-> NoResponse,
             ret |-> Undefined, err |-> NoError]

\* the identifiers the client was constructed with: key_client.ts 24-33
DefaultConfig == [tin |-> "1000000001", deviceNo |-> "TCS001", brn |-> "", taxpayerId |-> "1"]

\* no CryptoUtils function has been called
NoCodecCall == [op |-> "none"]

\* the POST of an operation has not settled
NotSettled == [kind |-> "none", status |-> 0, data |-> JNull]

\* one BaseClient.send call: where it is, its arguments, the fetchAesKey call
\* it made, its local aesKey, the request it built and with which builder,
\* the exchanges it made for the operation and how the POST settled, what it
\* returned or threw
IdleSend ==
    [pc |-> "idle", interfaceKey |-> "", payload |-> JNull, encrypt |-> FALSE,
     decrypt |-> FALSE, slot |-> 0, aesKey |-> Undefined, builder |-> "none",
     request |-> Undefined, exchanges |-> 0, outcome |-> NotSettled,
     res |-> Returned(ResponseEnvelope(Undefined))]

\* one Client.refreshAesKeyIfNeeded call: where it is, the fetchAesKey call it
\* made and with which argument, what isAesKeyValid was when it started and
\* when it ended, what it returned or threw
IdleRefresh ==
    [pc |-> "idle", slot |-> 0, force |-> FALSE, validAtStart |-> FALSE,
     validAtEnd |-> FALSE, ret |-> FALSE, err |-> NoError]

Init ==
    /\ pfx \in PfxStates
    /\ privateKey = Undefined
    /\ aesKey = Undefined
    /\ aesKeyFetchedAt = Undefined
    /\ aesKeyContentJson = Undefined
    /\ clock = StartClock
    /\ advances = 0
    /\ calls = [p \in CallIds |-> IdleCall]
    /\ lastWriter = 0
    /\ normIn = <<>>
    /\ normOut = [st |-> "none", key |-> <<>>]
    /\ config = DefaultConfig
    /\ cx = NoCodecCall
    /\ send = IdleSend
    /\ refresh = IdleRefresh

-----------------------------------------------------------------------------
(* Accessors: key_client.ts 170-191 *)

FreshInclusive(fetchedAt, now) ==
    now - fetchedAt * MsPerSecond <= aesKeyTtlSeconds * MsPerSecond

\* Date.now() / 1000 - fetchedAt < ttl, on milliseconds
Fresh(fetchedAt, now) == now - fetchedAt * MsPerSecond < aesKeyTtlSeconds * MsPerSecond

\* key_client.ts 185-188
isAesKeyValid ==
    /\ TruthyStr(aesKey)
    /\ TruthyNum(aesKeyFetchedAt)
    /\ Fresh(Val(aesKeyFetchedAt), clock)

\* key_client.ts 179-183: the instant, in milliseconds, or undefined
getAesKeyValidUntil ==
    IF TruthyNum(aesKeyFetchedAt)
    THEN Some((Val(aesKeyFetchedAt) + aesKeyTtlSeconds) * MsPerSecond)
    ELSE Undefined

-----------------------------------------------------------------------------
(* Private key loading: key_client.ts 45-80 *)

\* loadPrivateKeyFromPfx: the key, or the error thrown
loadPrivateKeyFromPfx ==
    CASE pfx = "missing" ->
            [ok |-> FALSE, err |-> AuthenticationException("PFX file not found")]
      [] pfx = "wrongPassword" ->
            [ok |-> FALSE, err |-> ForeignError("Error", "PKCS#12 MAC could not be verified")]
      [] pfx = "noKey" ->
            [ok |-> FALSE, err |-> AuthenticationException("Failed to extract private key from PFX")]
      [] OTHER -> [ok |-> TRUE, err |-> NoError]

\* loadPrivateKey: the cached key object if there is one, else a load
loadPrivateKey ==
    IF IsDefined(privateKey) THEN [ok |-> TRUE, err |-> NoError]
    ELSE loadPrivateKeyFromPfx

-----------------------------------------------------------------------------
(* fetchAesKey: key_client.ts 85-165 *)

UseCachedUnitSlip(force) ==
    /\ ~force
    /\ TruthyStr(aesKey)
    /\ TruthyNum(aesKeyFetchedAt)
    /\ clock - Val(aesKeyFetchedAt) < aesKeyTtlSeconds

\* key_client.ts 86-91: the cached key is returned
UseCached(force) ==
    /\ ~force
    /\ TruthyStr(aesKey)
    /\ TruthyNum(aesKeyFetchedAt)
    /\ Fresh(Val(aesKeyFetchedAt), clock)

\* key_client.ts 127: contentJson.passowrdDes ?? contentJson.passwordDes
EncryptedKeyField(contentJson) ==
    IF contentJson.passowrdDes.st \in {"absent", "null"}
    THEN contentJson.passwordDes
    ELSE contentJson.passowrdDes

\* key_client.ts 122-164: the outcome of the try block on a SUCCESS body; every
\* error thrown inside it is rethrown as an EncryptionException
ExtractAesKey(content) ==
    IF content.st \in {"missing", "empty"}
    THEN [ok |-> FALSE, key |-> <<>>,
          err |-> EncryptionException("Missing content in T104 response")]
    ELSE IF content.st = "notjson"
    THEN [ok |-> FALSE, key |-> <<>>, err |-> EncryptionException("JSON.parse failed")]
    ELSE LET field == EncryptedKeyField(content.json)
         IN  IF field.st # "b64"
             THEN [ok |-> FALSE, key |-> <<>>,
                   err |-> EncryptionException("Missing AES key field in T104 response")]
             ELSE IF ~field.rsaOk
             THEN [ok |-> FALSE, key |-> <<>>,
                   err |-> EncryptionException("privateDecrypt failed")]
             ELSE LET n == NormalizeAesKey(KeyCandidate(field.plain))
                  IN  IF n.st # "key"
                      THEN [ok |-> FALSE, key |-> <<>>,
                            err |-> EncryptionException("Cannot use AES key of this length")]
                      ELSE [ok |-> TRUE, key |-> n.key, err |-> NoError]

\* key_client.ts 114-120: the error thrown for a body whose returnMessage is not SUCCESS
T104Failed(resp) ==
    APIException("T104 failed",
                 IF IsDefined(resp.returnCode) THEN resp.returnCode ELSE Some("99"),
                 Undefined)

FetchedAtKeepFirst ==
    IF IsDefined(aesKeyFetchedAt) THEN aesKeyFetchedAt ELSE Some(clock \div MsPerSecond)

FetchedAtUnlessForgotten ==
    IF IsDefined(aesKey) \/ lastWriter = 0 THEN Some(clock \div MsPerSecond) ELSE Undefined

\* key_client.ts 155: Math.floor(Date.now() / 1000)
FetchedAtOnSuccess == Some(clock \div MsPerSecond)

ContentJsonCachedEarly(resp) ==
    IF resp.kind = "json" /\ resp.returnMessage = Some("SUCCESS") /\ resp.content.st = "object"
    THEN Some(resp.content.json)
    ELSE aesKeyContentJson

\* key_client.ts 109-120, 161-164: a failing handshake assigns none of the cached fields
ContentJsonAfterFailure(resp) == aesKeyContentJson

\* key_client.ts 95-98: the request of the handshake, built from the loaded
\* private key and the client's identifiers; its content is the empty list
HandshakeRequest(signingKey) ==
    buildUnencryptedRequest(JArr(<<>>), "T104", config.tin, config.deviceNo, config.brn,
                            signingKey, config.taxpayerId)

\* key_client.ts 85-104: from the call to its await of the POST, whoever calls
fetchAesKey(p, force) ==
    /\ calls[p].pc = "idle"
    /\ IF p = 1 THEN TRUE ELSE calls[p - 1].pc # "idle"
    /\ LET overlapped == \E q \in CallIds : calls[q].pc = "await"
           started == [calls[p] EXCEPT !.force = force, !.overlapped = overlapped]
       IN  IF UseCached(force)
           THEN /\ calls' = [calls EXCEPT ![p] =
                        [started EXCEPT !.pc = "done", !.path = "cache", !.ret = aesKey]]
                /\ UNCHANGED privateKey
           ELSE IF ~loadPrivateKey.ok
           THEN /\ calls' = [calls EXCEPT ![p] =
                        [started EXCEPT !.pc = "failed", !.path = "handshake",
                                        !.err = loadPrivateKey.err]]
                /\ UNCHANGED privateKey
           ELSE /\ calls' = [calls EXCEPT ![p] =
                        [started EXCEPT !.pc = "await", !.path = "handshake",
                                        !.exchanges = 1,
                                        !.request = Some(HandshakeRequest(Some("loaded")))]]
                /\ privateKey' = Some("loaded")
    /\ UNCHANGED <<pfx, aesKey, aesKeyFetchedAt, aesKeyContentJson, clock, advances,
                   lastWriter, normIn, normOut, config, cx>>

\* fetchAesKey called by the application
FetchStart(p, force) == fetchAesKey(p, force) /\ UNCHANGED <<send, refresh>>

\* key_client.ts 104-165: from the settling of the POST to the return or throw
FetchResume(p, resp) ==
    /\ calls[p].pc = "await"
    /\ LET got == [calls[p] EXCEPT !.resp = resp]
           fail(e) == /\ calls' = [calls EXCEPT ![p] = [got EXCEPT !.pc = "failed", !.err = e]]
                      /\ aesKeyContentJson' = ContentJsonAfterFailure(resp)
                      /\ UNCHANGED <<aesKey, aesKeyFetchedAt, lastWriter>>
       IN  IF resp.kind \in {"error", "cancelled"}
           THEN fail(APIException("T104 connection error", Undefined, Undefined))
           ELSE IF resp.kind = "null"
           THEN fail(ForeignError("TypeError", "Cannot read properties of null"))
           ELSE IF resp.returnMessage # Some("SUCCESS")
           THEN fail(T104Failed(resp))
           ELSE LET x == ExtractAesKey(resp.content)
                IN  IF ~x.ok
                    THEN fail(x.err)
                    ELSE /\ aesKey' = Some(ToHex(x.key))
                         /\ aesKeyFetchedAt' = FetchedAtOnSuccess
                         /\ aesKeyContentJson' = Some(resp.content.json)
                         /\ lastWriter' = p
                         /\ calls' = [calls EXCEPT ![p] =
                                [got EXCEPT !.pc = "done", !.ret = aesKey']]
    /\ UNCHANGED <<pfx, privateKey, clock, advances, normIn, normOut, config, cx, send, refresh>>

forgetKeepsContent ==
    /\ aesKey' = Undefined
    /\ aesKeyFetchedAt' = Undefined
    /\ UNCHANGED <<pfx, privateKey, aesKeyContentJson, clock, advances, calls,
                   lastWriter, normIn, normOut, config, cx, send, refresh>>

forgetKeyOnly ==
    /\ aesKey' = Undefined
    /\ UNCHANGED <<pfx, privateKey, aesKeyFetchedAt, aesKeyContentJson, clock, advances,
                   calls, lastWriter, normIn, normOut, config, cx, send, refresh>>

\* key_client.ts 174-176: the three cached fields are cleared
ClearCache ==
    /\ aesKey' = Undefined
    /\ aesKeyFetchedAt' = Undefined
    /\ aesKeyContentJson' = Undefined

\* key_client.ts 173-177
forgetAesKey ==
    /\ ClearCache
    /\ UNCHANGED <<pfx, privateKey, clock, advances, calls, lastWriter, normIn, normOut, config, cx, send, refresh>>

\* time passes between handlers
Advance(d) ==
    /\ advances < MaxAdvances
    /\ clock' = clock + d
    /\ advances' = advances + 1
    /\ UNCHANGED <<pfx, privateKey, aesKey, aesKeyFetchedAt, aesKeyContentJson, calls,
                   lastWriter, normIn, normOut, config, cx, send, refresh>>

Next ==
    \/ \E p \in CallIds, force \in BOOLEAN : FetchStart(p, force)
    \/ \E p \in CallIds, resp \in Responses : FetchResume(p, resp)
    \/ forgetAesKey
    \/ \E d \in ClockSteps : Advance(d)

Spec == Init /\ [][Next]_vars

-----------------------------------------------------------------------------
(* One call at a time against every kind of response *)

HandshakeNext ==
    \/ \E force \in BOOLEAN : FetchStart(1, force)
    \/ \E resp \in HandshakeResponses : FetchResume(1, resp)
    \/ forgetAesKey
    \/ \E d \in ClockSteps : Advance(d)

HandshakeSpec == Init /\ [][HandshakeNext]_vars

-----------------------------------------------------------------------------
(* The handshake of clients constructed with different identifiers *)

\* constructor arguments: key_client.ts 24-33 (brn defaults to '', taxpayerId to '1')
Configs ==
    {DefaultConfig,
     [tin |-> "1000000002", deviceNo |-> "TCS002", brn |-> "BRN9", taxpayerId |-> "7"],
     [tin |-> "1017918269", deviceNo |-> "1017918269_01", brn |-> "", taxpayerId |-> ""],
     [tin |-> "", deviceNo |-> "", brn |-> "", taxpayerId |-> "1"]}

RequestInit ==
    /\ pfx \in PfxStates
    /\ privateKey = Undefined
    /\ aesKey = Undefined
    /\ aesKeyFetchedAt = Undefined
    /\ aesKeyContentJson = Undefined
    /\ clock = StartClock
    /\ advances = 0
    /\ calls = [p \in CallIds |-> IdleCall]
    /\ lastWriter = 0
    /\ normIn = <<>>
    /\ normOut = [st |-> "none", key |-> <<>>]
    /\ config \in Configs
    /\ cx = NoCodecCall
    /\ send = IdleSend
    /\ refresh = IdleRefresh

\* the handshake fails in transit, is refused, or gives a key
RequestResponses ==
    {TransportError,
     Body(Some("FAIL"), Some("45"), ContentMissing),
     Body(Some("SUCCESS"), Some("00"), ContentObject(FKey(KeyA), FAbsent))}

RequestNext ==
    \/ \E p \in CallIds, force \in BOOLEAN : FetchStart(p, force)
    \/ \E p \in CallIds, resp \in RequestResponses : FetchResume(p, resp)
    \/ forgetAesKey

RequestSpec == RequestInit /\ [][RequestNext]_vars

-----------------------------------------------------------------------------
(* Key-length normalisation on its own: every candidate up to MaxCandLen bytes *)

Candidates == {RawBytes(n, seed) : n \in 0..MaxCandLen, seed \in {0, 5}}

NormInit ==
    /\ pfx = "ok"
    /\ privateKey = Undefined
    /\ aesKey = Undefined
    /\ aesKeyFetchedAt = Undefined
    /\ aesKeyContentJson = Undefined
    /\ clock = StartClock
    /\ advances = 0
    /\ calls = [p \in CallIds |-> IdleCall]
    /\ lastWriter = 0
    /\ normIn \in Candidates
    /\ normOut = [st |-> "none", key |-> <<>>]
    /\ config = DefaultConfig
    /\ cx = NoCodecCall
    /\ send = IdleSend
    /\ refresh = IdleRefresh

\* key_client.ts 141-152 applied to the candidate
NormApply ==
    /\ normOut.st = "none"
    /\ normOut' = NormalizeAesKey(normIn)
    /\ UNCHANGED <<pfx, privateKey, aesKey, aesKeyFetchedAt, aesKeyContentJson, clock,
                   advances, calls, lastWriter, normIn, config, cx, send, refresh>>

NormNext == NormApply

NormSpec == NormInit /\ [][NormNext]_vars

-----------------------------------------------------------------------------
(* The functions of CryptoUtils on their own: the client stays as           *)
(* constructed and cx holds the call, its arguments and its outcome.        *)

ClientAtRest ==
    /\ pfx = "ok"
    /\ privateKey = Undefined
    /\ aesKey = Undefined
    /\ aesKeyFetchedAt = Undefined
    /\ aesKeyContentJson = Undefined
    /\ clock = StartClock
    /\ advances = 0
    /\ calls = [p \in CallIds |-> IdleCall]
    /\ lastWriter = 0
    /\ normIn = <<>>
    /\ normOut = [st |-> "none", key |-> <<>>]
    /\ config = DefaultConfig
    /\ send = IdleSend
    /\ refresh = IdleRefresh

ClientUntouched ==
    UNCHANGED <<pfx, privateKey, aesKey, aesKeyFetchedAt, aesKeyContentJson, clock,
                advances, calls, lastWriter, normIn, normOut, config, send, refresh>>

-----------------------------------------------------------------------------
(* PKCS7 padding: pad, then unpad; or unpad what was given *)

\* n bytes all equal to c
ConstBytes(n, c) == [i \in 1..n |-> c]
\* n bytes counting up from seed + 1
Ramp(n, seed) == [i \in 1..n |-> (seed + i) % 256]
\* data with the byte j places before its last one changed
Tamper(data, j) == [data EXCEPT ![Len(data) - j] = (@ + 1) % 256]

PadInputs ==
    {ConstBytes(n, c) : n \in 0..MaxDataLen, c \in {0, 1, 2, 16, 17, 255}}
    \cup {Ramp(n, seed) : n \in 0..MaxDataLen, seed \in {0, 100}}
    \cup {Tamper(pkcs7Pad(Ramp(n, 100)), j) : n \in {0, 3, 14}, j \in {1, 2, 15}}

PadInit ==
    /\ ClientAtRest
    /\ \E data \in PadInputs :
          cx = [op |-> "pkcs7", stage |-> "given", data |-> data, padded |-> <<>>,
                res |-> Returned(<<>>)]

\* pkcs7Pad(data)
PadStep ==
    /\ cx.op = "pkcs7" /\ cx.stage = "given"
    /\ cx' = [cx EXCEPT !.stage = "padded", !.padded = pkcs7Pad(cx.data)]
    /\ ClientUntouched

\* pkcs7Unpad(pkcs7Pad(data))
UnpadStep ==
    /\ cx.op = "pkcs7" /\ cx.stage = "padded"
    /\ cx' = [cx EXCEPT !.stage = "unpadded", !.res = pkcs7Unpad(cx.padded)]
    /\ ClientUntouched

\* pkcs7Unpad(data), whatever data is
UnpadGivenStep ==
    /\ cx.op = "pkcs7" /\ cx.stage = "given"
    /\ cx' = [cx EXCEPT !.stage = "unpaddedGiven", !.res = pkcs7Unpad(cx.data)]
    /\ ClientUntouched

PadNext == PadStep \/ UnpadStep \/ UnpadGivenStep

PadSpec == PadInit /\ [][PadNext]_vars

-----------------------------------------------------------------------------
(* AES-ECB: encrypt, then decrypt; or decrypt what was given *)

\* n letters
AsciiText(n) == [i \in 1..n |-> 97 + (i % 26)]

\* texts of every length up to MaxTextLen, and texts whose characters take
\* two, three and four bytes, that end like padding, or that hold a
\* surrogate without its partner
Plaintexts ==
    {AsciiText(n) : n \in 0..MaxTextLen}
    \cup {<<123, 34, 97, 34, 58, 49, 125>>,
          <<233, 8364, 55357, 56832>>,
          AsciiText(13) \o <<233>>,
          AsciiText(12) \o <<8364, 1>>,
          <<104, 105, 3, 3, 3>>,
          <<55357, 56832, 55357, 56832, 55357, 56832, 55357, 56832>>,
          <<104, 105, 55296>>,
          <<56832, 104, 105>>,
          <<55357, 104, 56832>>}

\* key texts: hexadecimal digits of 16, 24 and 32 bytes in either case, 16
\* hexadecimal digits (8 bytes as hex, 16 as text), 16 and 32 other
\* characters, 15 characters of 16 bytes, and texts of no valid length
HexKeyText(n, seed) == CodeUnits(ToHex(Ramp(n, seed)))
UpperCase(s) == [i \in 1..Len(s) |-> IF s[i] >= 97 /\ s[i] <= 122 THEN s[i] - 32 ELSE s[i]]

UsableKeyTexts ==
    {HexKeyText(16, 0), HexKeyText(24, 50), HexKeyText(32, 170),
     UpperCase(HexKeyText(16, 170)),
     HexKeyText(8, 0),
     [i \in 1..16 |-> 103 + i], [i \in 1..32 |-> 71 + (i % 20)],
     AsciiText(14) \o <<233>>}

UnusableKeyTexts ==
    {<<>>, AsciiText(5), HexKeyText(10, 0), Ramp(33, 47),
     [i \in 1..33 |-> 49], AsciiText(15) \o <<233>>, HexKeyText(16, 0) \o <<103>>}

KeyTexts == UsableKeyTexts \cup UnusableKeyTexts

Codes == {"0", "1", "2"}
ZipCodes == {"0", "1"}

\* texts handed to decryptAesEcb as they come: empty, characters that are no
\* base64, ciphertexts whole, cut short, tampered with and compressed,
\* compressed and plain text, a stream with the magic number and nothing right
CipherOf(text, key) == encryptAesEcb(text, key).val
GivenTexts ==
    LET c == CipherOf(<<123, 34, 97, 34, 58, 49, 125>>, HexKeyText(16, 0))
        bytes == Base64Decode(c)
    IN  {<<>>, <<61>>, <<33, 33, 33>>,
         c,
         CipherOf(AsciiText(16), HexKeyText(24, 50)),
         Base64Encode(SubSeq(bytes, 1, 15)),
         Base64Encode(Tamper(bytes, 0)),
         Base64Encode(Gzip(bytes)),
         Base64Encode(Gzip(Utf8Encode(<<104, 105, 233>>))),
         Base64Encode(Utf8Encode(<<104, 105, 233>>)),
         Base64Encode(<<255, 104>>),
         Base64Encode(GzipMagic \o <<8, 0, 9>>),
         Base64Encode(ConstBytes(16, 0))}

NoAesCall ==
    [op |-> "aes", stage |-> "given", plaintext |-> <<>>, key |-> Undefined,
     encryptCode |-> "2", zipCode |-> "0", given |-> <<>>, keyBuf |-> <<>>,
     enc |-> Returned(<<>>), dec |-> Returned(<<>>)]

AesInit ==
    /\ ClientAtRest
    /\ \/ \E plaintext \in Plaintexts, key \in KeyTexts,
             encryptCode \in Codes, zipCode \in ZipCodes :
             cx = [NoAesCall EXCEPT !.plaintext = plaintext, !.key = Some(key),
                                    !.encryptCode = encryptCode, !.zipCode = zipCode]
       \/ \E given \in GivenTexts, key \in {Undefined} \cup {Some(k) : k \in KeyTexts},
             encryptCode \in Codes, zipCode \in ZipCodes :
             cx = [NoAesCall EXCEPT !.stage = "givenCipher", !.given = given, !.key = key,
                                    !.encryptCode = encryptCode, !.zipCode = zipCode]

\* encryptAesEcb(plaintext, key)
EncryptStep ==
    /\ cx.op = "aes" /\ cx.stage = "given"
    /\ cx' = [cx EXCEPT !.stage = "encrypted",
                        !.keyBuf = normalizeAesKey(Val(cx.key)),
                        !.enc = encryptAesEcb(cx.plaintext, Val(cx.key))]
    /\ ClientUntouched

\* decryptAesEcb(encryptAesEcb(plaintext, key), key, encryptCode, zipCode)
DecryptStep ==
    /\ cx.op = "aes" /\ cx.stage = "encrypted" /\ cx.enc.ok
    /\ cx' = [cx EXCEPT !.stage = "decrypted", !.given = cx.enc.val,
                        !.dec = decryptAesEcb(cx.enc.val, cx.key, cx.encryptCode,
                                              cx.zipCode)]
    /\ ClientUntouched

\* decryptAesEcb(given, key, encryptCode, zipCode)
DecryptGivenStep ==
    /\ cx.op = "aes" /\ cx.stage = "givenCipher"
    /\ cx' = [cx EXCEPT !.stage = "decryptedGiven",
                        !.dec = decryptAesEcb(cx.given, cx.key, cx.encryptCode,
                                              cx.zipCode)]
    /\ ClientUntouched

AesNext == EncryptStep \/ DecryptStep \/ DecryptGivenStep

AesSpec == AesInit /\ [][AesNext]_vars

-----------------------------------------------------------------------------
(* Encrypting under the session key: handshakes as in HandshakeSpec, and    *)
(* encryptAesEcb called with the cached key or with any key text            *)

KeyUseResponses ==
    {TransportError,
     Body(Some("SUCCESS"), Some("00"), ContentObject(FKey(KeyA), FAbsent)),
     Body(Some("SUCCESS"), Some("00"), ContentObject(FAbsent, FKey(KeyB))),
     Body(Some("SUCCESS"), Some("00"), ContentObject(FKey(RawBytes(32, 9)), FAbsent)),
     Body(Some("SUCCESS"), Some("00"), ContentObject(FKey(RawBytes(8, 1)), FAbsent)),
     Body(Some("SUCCESS"), Some("00"), ContentObject(FKey(RawBytes(20, 4)), FAbsent))}

KeyUsePlaintexts == {<<>>, <<123, 34, 97, 34, 58, 49, 125>>}

\* encryptAesEcb(plaintext, this.keyClient's cached key)
EncryptCachedStep(plaintext) ==
    /\ IsDefined(aesKey)
    /\ cx' = [NoAesCall EXCEPT !.stage = "encryptedCached", !.plaintext = plaintext,
                               !.key = Some(CodeUnits(Val(aesKey))),
                               !.keyBuf = normalizeAesKey(CodeUnits(Val(aesKey))),
                               !.enc = encryptAesEcb(plaintext, CodeUnits(Val(aesKey)))]
    /\ ClientUntouched

\* encryptAesEcb(plaintext, key)
EncryptGivenStep(plaintext, key) ==
    /\ cx' = [NoAesCall EXCEPT !.stage = "encrypted", !.plaintext = plaintext,
                               !.key = Some(key), !.keyBuf = normalizeAesKey(key),
                               !.enc = encryptAesEcb(plaintext, key)]
    /\ ClientUntouched

KeyUseNext ==
    \/ \E force \in BOOLEAN : FetchStart(1, force)
    \/ \E resp \in KeyUseResponses : FetchResume(1, resp)
    \/ forgetAesKey
    \/ \E plaintext \in KeyUsePlaintexts : EncryptCachedStep(plaintext)
    \/ \E plaintext \in KeyUsePlaintexts, key \in KeyTexts : EncryptGivenStep(plaintext, key)

KeyUseSpec == Init /\ [][KeyUseNext]_vars

-----------------------------------------------------------------------------
(* unwrapResponse: on envelopes as they come, and on the envelopes a        *)
(* server makes of a payload                                                *)

\* {"a":1}
PayloadA1 == JObj(<<Member(<<97>>, JNum(1))>>)

\* structured payloads: strings, numbers and nested objects and arrays, with
\* characters that JSON escapes and characters of several bytes
Payloads ==
    {PayloadA1,
     JObj(<<>>),
     JObj(<<Member(<<116, 105, 110>>, JStr(<<49, 48, 48, 48>>)),
            Member(<<110>>, JNum(-12)),
            Member(<<111>>, JObj(<<Member(<<34, 92>>, JStr(<<233, 8364, 10, 34>>))>>))>>),
     JObj(<<Member(<<108>>, JArr(<<JNum(0), JStr(<<>>), JNull, JBool(TRUE), JBool(FALSE),
                                     JArr(<<>>), JObj(<<>>)>>)),
            Member(<<115>>, JStr(<<55357, 56832, 55296, 7>>))>>),
     JObj(<<Member(AsciiText(9), JStr(AsciiText(20)))>>)}

\* the AES keys a response is made and unwrapped with
ResponseKeyTexts == {HexKeyText(16, 0), HexKeyText(32, 170), [i \in 1..16 |-> 103 + i]}
UnwrapKeys ==
    {Undefined, Some(<<>>), Some(AsciiText(5))} \cup {Some(k) : k \in ResponseKeyTexts}

Flags == {Undefined, Some(""), Some("0"), Some("1"), Some("2")}

\* data.content as it comes: empty, no base64, JSON text plain or compressed,
\* text that is no JSON, and a ciphertext
GivenContents ==
    {<<>>, <<33, 33, 33>>,
     Base64Encode(Utf8Encode(JsonStringify(PayloadA1))),
     Base64Encode(Gzip(Utf8Encode(JsonStringify(PayloadA1)))),
     Base64Encode(Utf8Encode(<<110, 111>>)),
     CipherOf(JsonStringify(PayloadA1), HexKeyText(16, 0))}

GivenEnvelopes ==
    {ResponseEnvelope(Undefined),
     ResponseEnvelope(Some(ResponseData(ContentAbsent, Undefined))),
     ResponseEnvelope(Some(ResponseData(ContentAbsent,
                                        Some(DataDescription(Some("1"), Some("2"), Some("0"))))))}
    \cup {ResponseEnvelope(Some(ResponseData(ContentText(c), Undefined))) : c \in GivenContents}
    \cup {ResponseEnvelope(Some(ResponseData(ContentText(c),
                                             Some(DataDescription(ct, ec, zc))))) :
             c \in GivenContents, ct \in Flags, ec \in Flags, zc \in {Undefined, Some("0"), Some("1")}}

NoUnwrapCall ==
    [op |-> "unwrap", stage |-> "given", made |-> "no", payload |-> JNull,
     madeWith |-> Undefined, envelope |-> ResponseEnvelope(Undefined), key |-> Undefined,
     res |-> Returned(ResponseEnvelope(Undefined))]

UnwrapInit ==
    /\ ClientAtRest
    /\ \/ \E envelope \in GivenEnvelopes, key \in UnwrapKeys :
             cx = [NoUnwrapCall EXCEPT !.envelope = envelope, !.key = key]
       \/ \E payload \in Payloads :
             cx = [NoUnwrapCall EXCEPT !.stage = "payload", !.payload = payload]

\* the server answers with the payload encrypted under a session key:
\* content is encryptAesEcb(JSON text, key), dataDescription 1/2/0
RespondEncryptedStep(key) ==
    /\ cx.op = "unwrap" /\ cx.stage = "payload"
    /\ cx' = [cx EXCEPT
                !.stage = "given", !.made = "encrypted", !.madeWith = Some(key),
                !.envelope = ResponseEnvelope(Some(ResponseData(
                    ContentText(encryptAesEcb(JsonStringify(cx.payload), key).val),
                    Some(DataDescription(Some("1"), Some("2"), Some("0"))))))]
    /\ ClientUntouched

\* the server answers with the payload in the clear: content is the base64
\* of the JSON text, compressed or not, codeType 0
RespondPlainStep(encryptCode, zipCode) ==
    /\ cx.op = "unwrap" /\ cx.stage = "payload"
    /\ LET bytes == Utf8Encode(JsonStringify(cx.payload))
       IN  cx' = [cx EXCEPT
                !.stage = "given", !.made = "plain",
                !.envelope = ResponseEnvelope(Some(ResponseData(
                    ContentText(Base64Encode(IF zipCode = "1" THEN Gzip(bytes) ELSE bytes)),
                    Some(DataDescription(Some("0"), Some(encryptCode), Some(zipCode))))))]
    /\ ClientUntouched

\* unwrapResponse(envelope, key)
UnwrapStep(key) ==
    /\ cx.op = "unwrap" /\ cx.stage = "given"
    /\ cx.made = "no" => key = cx.key
    /\ cx' = [cx EXCEPT !.stage = "unwrapped", !.key = key,
                        !.res = unwrapResponse(cx.envelope, key)]
    /\ ClientUntouched

UnwrapNext ==
    \/ \E key \in ResponseKeyTexts : RespondEncryptedStep(key)
    \/ \E encryptCode \in Codes, zipCode \in ZipCodes : RespondPlainStep(encryptCode, zipCode)
    \/ \E key \in UnwrapKeys : UnwrapStep(key)

UnwrapSpec == UnwrapInit /\ [][UnwrapNext]_vars

-----------------------------------------------------------------------------
(* Building an encrypted request: buildEncryptedRequest on a payload *)

\* interface codes of requests that go out encrypted
InterfaceCodes == {"T109", "T101"}

NoBuildCall ==
    [op |-> "build", stage |-> "given", content |-> JNull, key |-> <<>>,
     interfaceCode |-> "", signingKey |-> "loaded",
     res |-> Thrown(EncryptionException(""))]

BuildInit ==
    /\ ClientAtRest
    /\ \E content \in Payloads, key \in KeyTexts, interfaceCode \in InterfaceCodes :
          cx = [NoBuildCall EXCEPT !.content = content, !.key = key,
                                   !.interfaceCode = interfaceCode]

\* buildEncryptedRequest(content, aesKey, interfaceCode, tin, deviceNo, brn,
\* privateKey, taxpayerId) with the client's identifiers
BuildStep ==
    /\ cx.op = "build" /\ cx.stage = "given"
    /\ cx' = [cx EXCEPT !.stage = "built",
                        !.res = buildEncryptedRequest(cx.content, cx.key, cx.interfaceCode,
                                                      config.tin, config.deviceNo, config.brn,
                                                      cx.signingKey, config.taxpayerId)]
    /\ ClientUntouched

BuildNext == BuildStep

BuildSpec == BuildInit /\ [][BuildNext]_vars

-----------------------------------------------------------------------------
(* BaseClient: src/unnamed/part_003 *)

\* part_003 11-94: the interface code of every operation name
INTERFACES ==
    [get_server_time |-> "T101", client_init |-> "T102", sign_in |-> "T103",
     get_symmetric_key |-> "T104", forget_password |-> "T105",
     invoice_query_all |-> "T106", invoice_query_normal |-> "T107",
     invoice_details |-> "T108", billing_upload |-> "T109",
     batch_invoice_upload |-> "T129", credit_application |-> "T110",
     credit_note_query |-> "T111", credit_note_details |-> "T112",
     credit_note_approval |-> "T113", credit_note_cancel |-> "T114",
     query_credit_application |-> "T118", void_application |-> "T120",
     query_invalid_credit |-> "T122", invoice_checks |-> "T117",
     query_taxpayer |-> "T119", get_branches |-> "T138",
     check_taxpayer_type |-> "T137", query_principal_agent |-> "T180",
     system_dictionary |-> "T115", query_commodity_categories |-> "T123",
     query_commodity_categories_page |-> "T124", query_excise_duty |-> "T125",
     sync_commodity_categories |-> "T134", query_commodity_by_date |-> "T146",
     query_hs_codes |-> "T185", get_exchange_rates |-> "T126",
     get_exchange_rate |-> "T121", goods_upload |-> "T130", goods_inquiry |-> "T127",
     query_stock |-> "T128", query_goods_by_code |-> "T144", stock_maintain |-> "T131",
     stock_transfer |-> "T139", stock_records_query |-> "T145",
     stock_records_query_alt |-> "T147", stock_records_detail |-> "T148",
     stock_adjust_records |-> "T149", stock_adjust_detail |-> "T160",
     stock_transfer_records |-> "T183", stock_transfer_detail |-> "T184",
     negative_stock_config |-> "T177", query_fuel_type |-> "T162",
     upload_shift_info |-> "T163", upload_edc_disconnect |-> "T164",
     update_buyer_details |-> "T166", edc_invoice_query |-> "T167",
     query_fuel_pump_version |-> "T168", query_pump_nozzle_tank |-> "T169",
     query_edc_location |-> "T170", query_edc_uom_rate |-> "T171",
     upload_nozzle_status |-> "T172", query_edc_device_version |-> "T173",
     ussd_account_create |-> "T175", upload_device_status |-> "T176",
     efd_transfer |-> "T178", query_agent_relation |-> "T179",
     upload_frequent_contacts |-> "T181", get_frequent_contacts |-> "T182",
     invoice_remain_details |-> "T186", query_fdn_status |-> "T187",
     z_report_upload |-> "T116", exception_log_upload |-> "T132",
     tcs_upgrade_download |-> "T133", get_tcs_latest_version |-> "T135",
     certificate_upload |-> "T136"]

\* the properties every object literal inherits from Object.prototype
ObjectPrototypeNames ==
    {"constructor", "toString", "toLocaleString", "valueOf", "hasOwnProperty",
     "isPrototypeOf", "propertyIsEnumerable", "__proto__", "__defineGetter__",
     "__defineSetter__", "__lookupGetter__", "__lookupSetter__"}

\* part_003 121, 125: BaseClient.INTERFACES[interfaceKey] is the code of an
\* operation name, an inherited property of the object for a name of
\* Object.prototype (a function or object, which is truthy and is no text),
\* and undefined for every other name
InterfaceLookup(interfaceKey) ==
    IF interfaceKey \in DOMAIN INTERFACES THEN Some(INTERFACES[interfaceKey])
    ELSE IF interfaceKey \in ObjectPrototypeNames THEN Some("[inherited]")
    ELSE Undefined

\* the names of the envelope's properties, as code units
NameData == <<100, 97, 116, 97>>
NameContent == <<99, 111, 110, 116, 101, 110, 116>>
NameDataDescription == <<100, 97, 116, 97, 68, 101, 115, 99, 114, 105, 112, 116, 105, 111, 110>>
NameCodeType == <<99, 111, 100, 101, 84, 121, 112, 101>>
NameEncryptCode == <<101, 110, 99, 114, 121, 112, 116, 67, 111, 100, 101>>
NameZipCode == <<122, 105, 112, 67, 111, 100, 101>>

\* value.name of a parsed JSON value: undefined unless value is an object
\* that has the property
Property(value, name) ==
    IF value.t = "obj" /\ \E i \in 1..Len(value.m) : value.m[i].k = name
    THEN Some(value.m[CHOOSE i \in 1..Len(value.m) : value.m[i].k = name].v)
    ELSE Undefined

\* part_001 248-256 on a parsed body: data, its content when it is a text,
\* and the flags of its dataDescription that are texts
EnvelopeOf(respJson) ==
    LET data == Property(respJson, NameData)
        flagText(s) == IF s = <<48>> THEN "0" ELSE IF s = <<49>> THEN "1"
                       ELSE IF s = <<50>> THEN "2" ELSE IF s = <<>> THEN "" ELSE "other"
        flag(desc, name) ==
            IF IsDefined(Property(desc, name)) /\ Val(Property(desc, name)).t = "str"
            THEN Some(flagText(Val(Property(desc, name)).s)) ELSE Undefined
        content(d) ==
            IF IsDefined(Property(d, NameContent)) /\ Val(Property(d, NameContent)).t = "str"
            THEN ContentText(Val(Property(d, NameContent)).s) ELSE ContentAbsent
        description(d) ==
            IF IsDefined(Property(d, NameDataDescription))
               /\ Val(Property(d, NameDataDescription)).t = "obj"
            THEN Some(DataDescription(
                        flag(Val(Property(d, NameDataDescription)), NameCodeType),
                        flag(Val(Property(d, NameDataDescription)), NameEncryptCode),
                        flag(Val(Property(d, NameDataDescription)), NameZipCode)))
            ELSE Undefined
    IN  IF IsDefined(data) /\ Val(data).t = "obj"
        THEN ResponseEnvelope(Some(ResponseData(content(Val(data)), description(Val(data)))))
        ELSE ResponseEnvelope(Undefined)

\* the ways the POST of an operation settles: axios rejects with no response
\* (connection error, timeout), rejects with the response of a status outside
\* 2xx, or resolves with a status and the parsed body
NoResponseAtAll == [kind |-> "error", status |-> 0, data |-> JNull]
Rejected(status) == [kind |-> "rejected", status |-> status, data |-> JNull]
Resolved(status, data) == [kind |-> "resolved", status |-> status, data |-> data]

httpPostDropsStatus(outcome) ==
    IF outcome.kind \in {"error", "rejected"}
    THEN Thrown(APIException("HTTP request failed", Some(0), Undefined))
    ELSE Returned([status_code |-> outcome.status, body |-> JsonStringify(outcome.data)])

\* part_003 170-181: status_code and body, or the APIException of the catch
httpPost(outcome) ==
    IF outcome.kind = "error"
    THEN Thrown(APIException("HTTP request failed", Some(0), Undefined))
    ELSE IF outcome.kind = "rejected"
    THEN Thrown(APIException("HTTP request failed", Some(outcome.status), Undefined))
    ELSE Returned([status_code |-> outcome.status, body |-> JsonStringify(outcome.data)])

\* part_003 115-128: from the call to its await of fetchAesKey
SendStart(interfaceKey, payload, encrypt, decrypt) ==
    /\ send.pc = "idle"
    /\ LET started == [IdleSend EXCEPT !.interfaceKey = interfaceKey, !.payload = payload,
                                       !.encrypt = encrypt, !.decrypt = decrypt]
       IN  IF ~TruthyStr(InterfaceLookup(interfaceKey))
           THEN /\ send' = [started EXCEPT
                              !.pc = "failed",
                              !.res = Thrown(APIException("Interface not configured",
                                                          Some(400), Undefined))]
                /\ UNCHANGED <<pfx, privateKey, aesKey, aesKeyFetchedAt, aesKeyContentJson,
                               clock, advances, calls, lastWriter, normIn, normOut,
                               config, cx>>
           ELSE \E p \in CallIds :
                   /\ fetchAesKey(p, FALSE)
                   /\ send' = [started EXCEPT !.pc = "key", !.slot = p]
    /\ UNCHANGED refresh

FetchThrewUnnoticed == FALSE

\* part_003 128: the await of fetchAesKey rethrows what the call threw
FetchThrew == calls[send.slot].pc = "failed"

LocalAesKeyFromCache == aesKey

\* part_003 128: the local aesKey is the value the awaited call returned
LocalAesKey == calls[send.slot].ret

\* part_003 128-157: from the settling of fetchAesKey to the await of the POST
SendBuild ==
    /\ send.pc = "key"
    /\ calls[send.slot].pc \in {"done", "failed"}
    /\ LET interfaceCode == Val(InterfaceLookup(send.interfaceKey))
           encrypted == send.encrypt /\ TruthyStr(LocalAesKey)
           built == IF encrypted
                    THEN buildEncryptedRequest(send.payload, CodeUnits(Val(LocalAesKey)),
                                               interfaceCode, config.tin, config.deviceNo,
                                               config.brn, "loaded", config.taxpayerId)
                    ELSE Returned(buildUnencryptedRequest(
                                      send.payload, interfaceCode, config.tin,
                                      config.deviceNo, config.brn, Some("loaded"),
                                      config.taxpayerId))
       IN  IF FetchThrew
           THEN /\ send' = [send EXCEPT !.pc = "failed",
                                        !.res = Thrown(calls[send.slot].err)]
                /\ UNCHANGED privateKey
           ELSE IF ~loadPrivateKey.ok
           THEN /\ send' = [send EXCEPT !.pc = "failed", !.aesKey = LocalAesKey,
                                        !.res = Thrown(loadPrivateKey.err)]
                /\ UNCHANGED privateKey
           ELSE IF ~built.ok
           THEN /\ send' = [send EXCEPT !.pc = "failed", !.aesKey = LocalAesKey,
                                        !.res = Thrown(built.err)]
                /\ privateKey' = Some("loaded")
           ELSE /\ send' = [send EXCEPT
                              !.pc = "post", !.aesKey = LocalAesKey,
                              !.builder = IF encrypted THEN "encrypted" ELSE "plain",
                              !.request = Some(built.val), !.exchanges = 1]
                /\ privateKey' = Some("loaded")
    /\ UNCHANGED <<pfx, aesKey, aesKeyFetchedAt, aesKeyContentJson, clock, advances, calls,
                   lastWriter, normIn, normOut, config, cx, refresh>>

UnwrapKeyWhateverTheFlag ==
    IF IsDefined(send.aesKey) THEN Some(CodeUnits(Val(send.aesKey))) ELSE Undefined

\* part_003 167: decrypt ? aesKey : undefined
UnwrapKey ==
    IF send.decrypt /\ IsDefined(send.aesKey) THEN Some(CodeUnits(Val(send.aesKey)))
    ELSE Undefined

\* part_003 157-167: from the settling of the POST to the return or throw
SendResume(outcome) ==
    /\ send.pc = "post"
    /\ LET response == httpPost(outcome)
           respJson == JsonParse(response.val.body)
           unwrapped == unwrapResponse(EnvelopeOf(respJson.val), UnwrapKey)
           fail(e) == send' = [send EXCEPT !.pc = "failed", !.outcome = outcome,
                                           !.res = Thrown(e)]
       IN  IF ~response.ok THEN fail(response.err)
           ELSE IF response.val.status_code # 200
           THEN fail(APIException("HTTP status", Some(response.val.status_code), Undefined))
           ELSE IF ~respJson.ok THEN fail(respJson.err)
           ELSE IF respJson.val.t = "null"
           THEN fail(ForeignError("TypeError", "Cannot read properties of null"))
           ELSE IF ~unwrapped.ok THEN fail(unwrapped.err)
           ELSE send' = [send EXCEPT !.pc = "done", !.outcome = outcome, !.res = unwrapped]
    /\ UNCHANGED <<pfx, privateKey, aesKey, aesKeyFetchedAt, aesKeyContentJson, clock,
                   advances, calls, lastWriter, normIn, normOut, config, cx, refresh>>

-----------------------------------------------------------------------------
(* One send, after or during a key fetch of the application *)

\* operation names: one of the mapping, one that client.ts passes and the
\* mapping lacks, and one that Object.prototype defines
SendNames == {"billing_upload", "commodity_incremental", "constructor"}

SendPayloads == {PayloadA1, JObj(<<>>)}

\* the handshake fails in transit, or gives one of two keys
SendHandshakes ==
    {TransportError,
     Body(Some("SUCCESS"), Some("00"), ContentObject(FKey(KeyA), FAbsent)),
     Body(Some("SUCCESS"), Some("00"), ContentObject(FAbsent, FKey(KeyB)))}

\* the body of a reply: data.content with its three flags
Reply(content, codeType, encryptCode, zipCode) ==
    JObj(<<Member(NameData,
                  JObj(<<Member(NameContent, JStr(content)),
                         Member(NameDataDescription,
                                JObj(<<Member(NameCodeType, JStr(codeType)),
                                       Member(NameEncryptCode, JStr(encryptCode)),
                                       Member(NameZipCode, JStr(zipCode))>>))>>))>>)

\* {"ok":1}, the payload of the replies
ReplyPayload == JObj(<<Member(<<111, 107>>, JNum(1))>>)

\* the reply in the clear: base64 of the JSON text, flags 0/1/0
PlainReply == Reply(Base64Encode(Utf8Encode(JsonStringify(ReplyPayload))), <<48>>, <<49>>, <<48>>)

\* the reply encrypted under a key text, flags 1/2/0
EncryptedReply(keyText) ==
    Reply(encryptAesEcb(JsonStringify(ReplyPayload), keyText).val, <<49>>, <<50>>, <<48>>)

\* the keys a server may hold for the session: those of the two handshakes
SessionKeyTexts == {CodeUnits(ToHex(ExtractAesKey(ContentObject(FKey(KeyA), FAbsent)).key)),
                    CodeUnits(ToHex(ExtractAesKey(ContentObject(FAbsent, FKey(KeyB))).key))}

\* how the POST of the operation may settle
SendOutcomes ==
    {NoResponseAtAll, Rejected(500), Resolved(204, JNull),
     Resolved(200, JNull), Resolved(200, JObj(<<>>)), Resolved(200, PlainReply)}
    \cup {Resolved(200, EncryptedReply(k)) : k \in SessionKeyTexts}

SendNext ==
    \/ \E interfaceKey \in SendNames, payload \in SendPayloads, encrypt \in BOOLEAN,
          decrypt \in BOOLEAN : SendStart(interfaceKey, payload, encrypt, decrypt)
    \/ SendBuild
    \/ \E outcome \in SendOutcomes : SendResume(outcome)
    \/ \E force \in BOOLEAN : FetchStart(1, force)
    \/ \E p \in CallIds, resp \in SendHandshakes : FetchResume(p, resp)
    \/ forgetAesKey

SendSpec == Init /\ [][SendNext]_vars

-----------------------------------------------------------------------------
(* Client: src/src/client.ts 258-741 *)

\* the convenience methods: each passes send an operation name and the two
\* flags (the payload is the caller's data, validated where a schema exists)
ClientCalls ==
    {[method |-> "clientInit", operation |-> "client_init",
      encrypt |-> FALSE, decrypt |-> FALSE],
     [method |-> "signIn", operation |-> "sign_in",
      encrypt |-> FALSE, decrypt |-> TRUE],
     [method |-> "forgetPassword", operation |-> "forget_password",
      encrypt |-> TRUE, decrypt |-> FALSE],
     [method |-> "updateSystemDictionary", operation |-> "system_dictionary",
      encrypt |-> FALSE, decrypt |-> TRUE],
     [method |-> "fiscaliseInvoice", operation |-> "billing_upload",
      encrypt |-> TRUE, decrypt |-> TRUE],
     [method |-> "fiscaliseBatchInvoices", operation |-> "batch_invoice_upload",
      encrypt |-> TRUE, decrypt |-> TRUE],
     [method |-> "verifyInvoice", operation |-> "invoice_details",
      encrypt |-> TRUE, decrypt |-> TRUE],
     [method |-> "queryInvoices", operation |-> "invoice_query_normal",
      encrypt |-> TRUE, decrypt |-> TRUE],
     [method |-> "queryAllInvoices", operation |-> "invoice_query_all",
      encrypt |-> TRUE, decrypt |-> TRUE],
     [method |-> "verifyInvoicesBatch", operation |-> "invoice_checks",
      encrypt |-> TRUE, decrypt |-> TRUE],
     [method |-> "invoiceRemainDetails", operation |-> "invoice_remain_details",
      encrypt |-> TRUE, decrypt |-> TRUE],
     [method |-> "applyCreditNote", operation |-> "credit_application",
      encrypt |-> TRUE, decrypt |-> TRUE],
     [method |-> "applyDebitNote", operation |-> "credit_application",
      encrypt |-> TRUE, decrypt |-> TRUE],
     [method |-> "queryCreditNoteStatus", operation |-> "credit_note_query",
      encrypt |-> TRUE, decrypt |-> TRUE],
     [method |-> "getCreditApplicationDetail", operation |-> "credit_note_details",
      encrypt |-> TRUE, decrypt |-> TRUE],
     [method |-> "approveCreditNote", operation |-> "credit_note_approval",
      encrypt |-> TRUE, decrypt |-> FALSE],
     [method |-> "cancelCreditNoteApplication", operation |-> "credit_note_cancel",
      encrypt |-> TRUE, decrypt |-> FALSE],
     [method |-> "queryInvalidCreditNote", operation |-> "query_invalid_credit",
      encrypt |-> TRUE, decrypt |-> TRUE],
     [method |-> "voidCreditDebitApplication", operation |-> "void_application",
      encrypt |-> TRUE, decrypt |-> FALSE],
     [method |-> "queryTaxpayerByTin", operation |-> "query_taxpayer",
      encrypt |-> TRUE, decrypt |-> TRUE],
     [method |-> "getRegisteredBranches", operation |-> "get_branches",
      encrypt |-> TRUE, decrypt |-> TRUE],
     [method |-> "checkTaxpayerType", operation |-> "check_taxpayer_type",
      encrypt |-> TRUE, decrypt |-> TRUE],
     [method |-> "queryPrincipalAgent", operation |-> "query_principal_agent",
      encrypt |-> TRUE, decrypt |-> TRUE],
     [method |-> "queryCommodityCategoriesAll", operation |-> "query_commodity_category",
      encrypt |-> FALSE, decrypt |-> FALSE],
     [method |-> "queryCommodityCategories", operation |-> "query_commodity_category_page",
      encrypt |-> FALSE, decrypt |-> FALSE],
     [method |-> "syncCommodityCategories", operation |-> "commodity_incremental",
      encrypt |-> TRUE, decrypt |-> TRUE],
     [method |-> "queryCommodityByDate", operation |-> "query_commodity_by_date",
      encrypt |-> TRUE, decrypt |-> TRUE],
     [method |-> "queryExciseDutyCodes", operation |-> "query_excise_duty",
      encrypt |-> FALSE, decrypt |-> FALSE],
     [method |-> "queryHsCodes", operation |-> "query_hs_codes",
      encrypt |-> FALSE, decrypt |-> FALSE],
     [method |-> "getExchangeRate", operation |-> "get_exchange_rate",
      encrypt |-> TRUE, decrypt |-> TRUE],
     [method |-> "getAllExchangeRates", operation |-> "get_exchange_rates",
      encrypt |-> TRUE, decrypt |-> TRUE],
     [method |-> "uploadGoods", operation |-> "goods_upload",
      encrypt |-> TRUE, decrypt |-> TRUE],
     [method |-> "inquireGoods", operation |-> "goods_inquiry",
      encrypt |-> TRUE, decrypt |-> TRUE],
     [method |-> "queryGoodsByCode", operation |-> "query_goods_by_code",
      encrypt |-> TRUE, decrypt |-> TRUE],
     [method |-> "queryStockQuantity", operation |-> "query_stock",
      encrypt |-> TRUE, decrypt |-> TRUE],
     [method |-> "maintainStock", operation |-> "stock_maintain",
      encrypt |-> TRUE, decrypt |-> TRUE],
     [method |-> "transferStock", operation |-> "stock_transfer",
      encrypt |-> TRUE, decrypt |-> TRUE],
     [method |-> "queryStockRecords", operation |-> "stock_records_query",
      encrypt |-> TRUE, decrypt |-> TRUE],
     [method |-> "queryStockRecordsAlt", operation |-> "stock_records_query_alt",
      encrypt |-> TRUE, decrypt |-> TRUE],
     [method |-> "queryStockRecordDetail", operation |-> "stock_records_detail",
      encrypt |-> TRUE, decrypt |-> TRUE],
     [method |-> "queryStockAdjustRecords", operation |-> "stock_adjust_records",
      encrypt |-> TRUE, decrypt |-> TRUE],
     [method |-> "queryStockAdjustDetail", operation |-> "stock_adjust_detail",
      encrypt |-> TRUE, decrypt |-> TRUE],
     [method |-> "queryStockTransferRecords", operation |-> "stock_transfer_records",
      encrypt |-> TRUE, decrypt |-> TRUE],
     [method |-> "queryStockTransferDetail", operation |-> "stock_transfer_detail",
      encrypt |-> TRUE, decrypt |-> TRUE],
     [method |-> "queryNegativeStockConfig", operation |-> "negative_stock_config",
      encrypt |-> FALSE, decrypt |-> FALSE],
     [method |-> "queryFuelType", operation |-> "query_fuel_type",
      encrypt |-> FALSE, decrypt |-> TRUE],
     [method |-> "uploadShiftInfo", operation |-> "upload_shift_info",
      encrypt |-> TRUE, decrypt |-> FALSE],
     [method |-> "uploadEdcDisconnect", operation |-> "upload_edc_disconnect",
      encrypt |-> TRUE, decrypt |-> FALSE],
     [method |-> "updateBuyerDetails", operation |-> "update_buyer_details",
      encrypt |-> TRUE, decrypt |-> FALSE],
     [method |-> "edcInvoiceQuery", operation |-> "edc_invoice_query",
      encrypt |-> TRUE, decrypt |-> TRUE],
     [method |-> "queryFuelPumpVersion", operation |-> "query_fuel_pump_version",
      encrypt |-> FALSE, decrypt |-> TRUE],
     [method |-> "queryPumpNozzleTank", operation |-> "query_pump_nozzle_tank",
      encrypt |-> TRUE, decrypt |-> TRUE],
     [method |-> "queryEdcLocation", operation |-> "query_edc_location",
      encrypt |-> TRUE, decrypt |-> TRUE],
     [method |-> "queryEdcUomRate", operation |-> "query_edc_uom_rate",
      encrypt |-> FALSE, decrypt |-> TRUE],
     [method |-> "uploadNozzleStatus", operation |-> "upload_nozzle_status",
      encrypt |-> TRUE, decrypt |-> FALSE],
     [method |-> "queryEdcDeviceVersion", operation |-> "query_edc_device_version",
      encrypt |-> FALSE, decrypt |-> TRUE],
     [method |-> "uploadDeviceStatus", operation |-> "upload_device_status",
      encrypt |-> FALSE, decrypt |-> FALSE],
     [method |-> "ussdAccountCreate", operation |-> "ussd_account_create",
      encrypt |-> TRUE, decrypt |-> FALSE],
     [method |-> "efdTransfer", operation |-> "efd_transfer",
      encrypt |-> TRUE, decrypt |-> FALSE],
     [method |-> "queryAgentRelation", operation |-> "query_agent_relation",
      encrypt |-> TRUE, decrypt |-> TRUE],
     [method |-> "uploadFrequentContacts", operation |-> "upload_frequent_contacts",
      encrypt |-> TRUE, decrypt |-> FALSE],
     [method |-> "getFrequentContacts", operation |-> "get_frequent_contacts",
      encrypt |-> TRUE, decrypt |-> TRUE],
     [method |-> "queryFdnStatus", operation |-> "query_fdn_status",
      encrypt |-> TRUE, decrypt |-> TRUE],
     [method |-> "uploadZReport", operation |-> "z_report_upload",
      encrypt |-> TRUE, decrypt |-> TRUE],
     [method |-> "uploadExceptionLogs", operation |-> "exception_log_upload",
      encrypt |-> TRUE, decrypt |-> FALSE],
     [method |-> "tcsUpgradeDownload", operation |-> "tcs_upgrade_download",
      encrypt |-> TRUE, decrypt |-> TRUE],
     [method |-> "getTcsLatestVersion", operation |-> "get_tcs_latest_version",
      encrypt |-> FALSE, decrypt |-> TRUE],
     [method |-> "certificateUpload", operation |-> "certificate_upload",
      encrypt |-> FALSE, decrypt |-> FALSE],
     [method |-> "getServerTime", operation |-> "get_server_time",
      encrypt |-> FALSE, decrypt |-> FALSE]}

\* client.ts 279-724: one convenience method called with data that passes
\* its validation, up to the await inside send
ClientCall(c, payload) ==
    /\ c \in ClientCalls
    /\ SendStart(c.operation, payload, c.encrypt, c.decrypt)

\* the handshake fails in transit or gives a key; the POST of the operation
\* fails in transit or is answered in the clear
ClientHandshakes ==
    {TransportError, Body(Some("SUCCESS"), Some("00"), ContentObject(FKey(KeyA), FAbsent))}
ClientOutcomes == {NoResponseAtAll, Resolved(200, PlainReply)}

ClientNext ==
    \/ \E c \in ClientCalls, payload \in SendPayloads : ClientCall(c, payload)
    \/ SendBuild
    \/ \E outcome \in ClientOutcomes : SendResume(outcome)
    \/ \E p \in CallIds, resp \in ClientHandshakes : FetchResume(p, resp)

ClientSpec == Init /\ [][ClientNext]_vars

-----------------------------------------------------------------------------
(* forgetAesKey called while handshakes are in flight: cx holds the calls   *)
(* that were awaiting their answer when it was called                       *)

InFlight == {p \in CallIds : calls[p].pc = "await"}

\* forgetAesKey, called between the start and the settling of a handshake
ForgetInFlight ==
    /\ InFlight # {}
    /\ ClearCache
    /\ cx' = [op |-> "forget", inFlight |-> InFlight,
              started |-> {p \in CallIds : calls[p].pc # "idle"}]
    /\ UNCHANGED <<pfx, privateKey, clock, advances, calls, lastWriter, normIn, normOut,
                   config, send, refresh>>

ForgetNext ==
    \/ \E p \in CallIds, force \in BOOLEAN : FetchStart(p, force)
    \/ \E p \in CallIds, resp \in SendHandshakes : FetchResume(p, resp)
    \/ ForgetInFlight

ForgetSpec == Init /\ [][ForgetNext]_vars

-----------------------------------------------------------------------------
(* Client.refreshAesKeyIfNeeded: src/src/client.ts 726-740 *)

\* client.ts 732: the age in seconds above which the key is refreshed
RefreshAfterSeconds == 23 * 60 * 60

\* client.ts 728-733: there is a timestamp, and more whole seconds than
\* RefreshAfterSeconds lie between it and Math.floor(Date.now() / 1000)
RefreshForced ==
    /\ TruthyNum(aesKeyFetchedAt)
    /\ (clock \div MsPerSecond) - Val(aesKeyFetchedAt) > RefreshAfterSeconds

\* client.ts 736: there is no timestamp and no key
RefreshFirst == ~TruthyNum(aesKeyFetchedAt) /\ ~TruthyStr(aesKey)

\* client.ts 726-738: from the call to its await of fetchAesKey, or to its
\* return of false
RefreshStart ==
    /\ refresh.pc = "idle"
    /\ IF RefreshForced \/ RefreshFirst
       THEN \E p \in CallIds :
               /\ fetchAesKey(p, RefreshForced)
               /\ refresh' = [refresh EXCEPT !.pc = "fetch", !.slot = p,
                                             !.force = RefreshForced,
                                             !.validAtStart = isAesKeyValid]
       ELSE /\ refresh' = [refresh EXCEPT !.pc = "done", !.ret = FALSE,
                                          !.validAtStart = isAesKeyValid,
                                          !.validAtEnd = isAesKeyValid]
            /\ UNCHANGED <<pfx, privateKey, aesKey, aesKeyFetchedAt, aesKeyContentJson,
                           clock, advances, calls, lastWriter, normIn, normOut, config, cx>>
    /\ UNCHANGED send

\* client.ts 733-734, 737-738: fetchAesKey settled; true is returned, or the
\* error of the call is thrown
RefreshEnd ==
    /\ refresh.pc = "fetch"
    /\ calls[refresh.slot].pc \in {"done", "failed"}
    /\ refresh' = IF calls[refresh.slot].pc = "failed"
                  THEN [refresh EXCEPT !.pc = "failed", !.err = calls[refresh.slot].err,
                                       !.validAtEnd = isAesKeyValid]
                  ELSE [refresh EXCEPT !.pc = "done", !.ret = TRUE,
                                       !.validAtEnd = isAesKeyValid]
    /\ UNCHANGED <<pfx, privateKey, aesKey, aesKeyFetchedAt, aesKeyContentJson, clock,
                   advances, calls, lastWriter, normIn, normOut, config, cx, send>>

\* the continuation of an await runs in the turn that settles the awaited
\* call, so no time passes between the settling and RefreshEnd
TimePasses(d) ==
    /\ ~(refresh.pc = "fetch" /\ calls[refresh.slot].pc \in {"done", "failed"})
    /\ Advance(d)

RefreshNext ==
    \/ \E force \in BOOLEAN : FetchStart(1, force)
    \/ \E p \in CallIds, resp \in ClientHandshakes : FetchResume(p, resp)
    \/ \E d \in ClockSteps : TimePasses(d)
    \/ RefreshStart
    \/ RefreshEnd

RefreshSpec == Init /\ [][RefreshNext]_vars

-----------------------------------------------------------------------------
(* Vocabulary of the properties *)

\* a key is cached and younger than the time-to-live: now - fetchedAt < ttl
CachedWithinTtl ==
    /\ IsDefined(aesKey)
    /\ IsDefined(aesKeyFetchedAt)
    /\ clock < (Val(aesKeyFetchedAt) + aesKeyTtlSeconds) * MsPerSecond

CacheAbsent ==
    aesKey = Undefined /\ aesKeyFetchedAt = Undefined /\ aesKeyContentJson = Undefined

\* this step is the synchronous start of call p
Starts(p) == calls[p].pc = "idle" /\ calls'[p].pc # "idle"
\* this step settles call p's exchange and the call returns
Succeeds(p) == calls[p].pc = "await" /\ calls'[p].pc = "done"
\* this step ends call p with a throw
Fails(p) == calls[p].pc # "failed" /\ calls'[p].pc = "failed"

-----------------------------------------------------------------------------
(* C1: fetchAesKey(false) called while a key is cached and                  *)
(* now - fetchedAt < ttl returns the cached key at once, makes no network   *)
(* exchange and leaves key, timestamp and decoded content unchanged.        *)
C1_CachedKeyNoHandshake ==
    [][\A p \in CallIds :
          (Starts(p) /\ ~calls'[p].force /\ CachedWithinTtl)
              => /\ calls'[p].pc = "done"
                 /\ calls'[p].ret = aesKey
                 /\ calls'[p].exchanges = 0
                 /\ cache' = cache]_vars

\* a second call returned the key the first one cached, just before it expires
C1_Witness ==
    /\ calls[1].pc = "done" /\ calls[1].path = "handshake"
    /\ calls[MaxCalls].pc = "done" /\ calls[MaxCalls].path = "cache"
    /\ calls[MaxCalls].exchanges = 0
    /\ calls[MaxCalls].ret = aesKey /\ IsDefined(aesKey)
    /\ clock >= (aesKeyTtlSeconds - 1) * MsPerSecond

-----------------------------------------------------------------------------
(* C2: only a successful handshake updates the cache.  A call that fails   *)
(* at any step (key loading, transport error, cancelled exchange, body     *)
(* without SUCCESS, missing content or key field, RSA failure, unusable    *)
(* length), and a call that merely starts its exchange, leaves key,        *)
(* timestamp and content as they were, also when it was forced over a      *)
(* still-valid key; the cache changes only when forgetAesKey clears it or  *)
(* when a call settles a SUCCESS body and returns.                         *)
C2_OnlySuccessUpdatesCache ==
    [][/\ \A p \in CallIds :
            (Fails(p) \/ (Starts(p) /\ calls'[p].pc = "await")) => cache' = cache
       /\ cache' # cache =>
            \/ CacheAbsent'
            \/ \E p \in CallIds :
                  /\ Succeeds(p)
                  /\ calls'[p].resp.kind = "json"
                  /\ calls'[p].resp.returnMessage = Some("SUCCESS")]_vars

\* a forced call failed in key extraction while the key of an earlier call
\* was still valid, and that key is still the one cached
C2_Witness ==
    /\ calls[1].pc = "done" /\ calls[1].path = "handshake"
    /\ calls[MaxCalls].pc = "failed" /\ calls[MaxCalls].force
    /\ calls[MaxCalls].exchanges = 1
    /\ calls[MaxCalls].err.errorType = "ENCRYPTION_ERROR"
    /\ isAesKeyValid
    /\ aesKey = calls[1].ret
    /\ aesKeyContentJson = Some(calls[1].resp.content.json)

-----------------------------------------------------------------------------
(* C3: in every reachable state the cached key and the fetched-at          *)
(* timestamp are both absent or both present, and when present the decoded *)
(* content is present too, and key and content are those of one handshake, *)
(* the last call that cached.                                              *)
C3_KeyAbsentOrFullyPopulated ==
    \/ CacheAbsent
    \/ /\ IsDefined(aesKey) /\ IsDefined(aesKeyFetchedAt) /\ IsDefined(aesKeyContentJson)
       /\ lastWriter \in CallIds
       /\ LET w == calls[lastWriter]
          IN  /\ w.pc = "done" /\ w.path = "handshake"
              /\ aesKey = w.ret
              /\ aesKeyContentJson = Some(w.resp.content.json)
              /\ EncryptedKeyField(Val(aesKeyContentJson)).rsaOk

\* the cache was populated by the later call while the earlier one is still
\* awaiting its exchange
C3_Witness ==
    /\ IsDefined(aesKey) /\ IsDefined(aesKeyFetchedAt)
    /\ lastWriter = MaxCalls
    /\ calls[1].pc = "await"

-----------------------------------------------------------------------------
(* More vocabulary *)

\* the call must refresh: forced, or no key cached, or now - fetchedAt >= ttl
MustRefresh(force) == force \/ ~CachedWithinTtl

\* the private key cannot be had: none is loaded and the container gives none
KeyUnavailable == privateKey = Undefined /\ pfx # "ok"

RECURSIVE HexString(_)
\* the hex representation of bytes: two digits per byte, in order
HexString(bytes) ==
    IF bytes = <<>> THEN <<>>
    ELSE <<HexDigits[(Head(bytes) \div 16) + 1], HexDigits[(Head(bytes) % 16) + 1]>>
            \o HexString(Tail(bytes))

\* the normalised key a SUCCESS body carries
KeyOfBody(resp) ==
    NormalizeAesKey(KeyCandidate(EncryptedKeyField(resp.content.json).plain)).key

\* t is the current timestamp in whole seconds
IsSecondOf(t, now) == t * MsPerSecond <= now /\ now < (t + 1) * MsPerSecond

\* after this step the cache holds exactly what call p's handshake delivered
CachesOwnHandshake(p) ==
    /\ IsDefined(aesKey') /\ IsDefined(aesKeyFetchedAt')
    /\ aesKey' = Some(HexString(KeyOfBody(calls'[p].resp)))
    /\ Len(Val(aesKey')) \in {32, 48, 64}
    /\ IsSecondOf(Val(aesKeyFetchedAt'), clock)
    /\ aesKeyContentJson' = Some(calls'[p].resp.content.json)

-----------------------------------------------------------------------------
(* C4 as stated: a call that is forced, or finds no cached key, or finds   *)
(* one with now - fetchedAt >= ttl, performs exactly one handshake         *)
(* exchange; on success it caches the hex of the normalised key, the       *)
(* current timestamp and the decoded content, and returns that key.        *)
C4_Original ==
    [][\A p \in CallIds :
          /\ (Starts(p) /\ MustRefresh(calls'[p].force))
                => (calls'[p].pc = "await" /\ calls'[p].exchanges = 1)
          /\ Succeeds(p)
                => /\ calls'[p].exchanges = 1
                   /\ CachesOwnHandshake(p)
                   /\ calls'[p].ret = aesKey']_vars

(* C4 amended: such a call performs exactly one exchange unless loading    *)
(* the private key fails, in which case it throws that error before any    *)
(* exchange; an exchange is never repeated; on success the cache and the   *)
(* return value are as stated.                                             *)
C4_RefreshDoesOneHandshake ==
    [][\A p \in CallIds :
          /\ (Starts(p) /\ MustRefresh(calls'[p].force))
                => IF KeyUnavailable
                   THEN calls'[p].pc = "failed" /\ calls'[p].exchanges = 0
                        /\ calls'[p].err.errorType # "ENCRYPTION_ERROR"
                        /\ calls'[p].err.errorType # "API_ERROR"
                   ELSE calls'[p].pc = "await" /\ calls'[p].exchanges = 1
          /\ calls[p].pc = "await" => calls'[p].exchanges = 1
          /\ Succeeds(p)
                => /\ CachesOwnHandshake(p)
                   /\ calls'[p].ret = aesKey']_vars

\* a forced call over a still-valid key fetched and cached a different key
C4_Witness ==
    /\ calls[1].pc = "done" /\ calls[1].path = "handshake"
    /\ calls[MaxCalls].pc = "done" /\ calls[MaxCalls].path = "handshake"
    /\ calls[MaxCalls].force /\ ~calls[MaxCalls].overlapped
    /\ calls[MaxCalls].exchanges = 1
    /\ advances = 0
    /\ aesKey = calls[MaxCalls].ret
    /\ aesKey # calls[1].ret
    /\ isAesKeyValid

-----------------------------------------------------------------------------
(* C5: isAesKeyValid is true iff a key is cached and now - fetchedAt < ttl *)
(* (a key fetched at T is valid at every instant up to T+S-1, invalid from *)
(* T+S+1 on), and getAesKeyValidUntil is fetchedAt + ttl, or undefined     *)
(* when no timestamp is set.                                               *)
C5_ValidityFollowsTtl ==
    LET T == IF IsDefined(aesKeyFetchedAt) THEN Val(aesKeyFetchedAt) ELSE 0
        S == aesKeyTtlSeconds
        cached == IsDefined(aesKey) /\ IsDefined(aesKeyFetchedAt)
    IN  /\ isAesKeyValid <=> (cached /\ clock < (T + S) * MsPerSecond)
        /\ (cached /\ clock <= (T + S - 1) * MsPerSecond) => isAesKeyValid
        /\ (cached /\ clock >= (T + S + 1) * MsPerSecond) => ~isAesKeyValid
        /\ getAesKeyValidUntil =
              IF IsDefined(aesKeyFetchedAt) THEN Some((T + S) * MsPerSecond) ELSE Undefined

\* the cached key in the last whole second of its life
C5_Witness ==
    /\ IsDefined(aesKey) /\ IsDefined(aesKeyFetchedAt)
    /\ clock = (Val(aesKeyFetchedAt) + aesKeyTtlSeconds - 1) * MsPerSecond
    /\ isAesKeyValid

-----------------------------------------------------------------------------
(* C6 as stated: forgetAesKey clears key, timestamp and content from any   *)
(* state; right after it isAesKeyValid is false, getAesKeyValidUntil is    *)
(* undefined, and the next fetchAesKey, forced or not, performs a          *)
(* handshake.                                                              *)
C6_Original ==
    [][/\ forgetAesKey
            => (CacheAbsent' /\ ~isAesKeyValid' /\ getAesKeyValidUntil' = Undefined)
       /\ \A p \in CallIds :
            (Starts(p) /\ CacheAbsent)
                => (calls'[p].pc = "await" /\ calls'[p].exchanges = 1)]_vars

(* C6 amended: ... and the next fetchAesKey, forced or not, takes the      *)
(* handshake path instead of returning a cached key: it performs a         *)
(* handshake unless loading the private key fails first.                   *)
C6_ForgetClearsEverything ==
    [][/\ forgetAesKey
            => (CacheAbsent' /\ ~isAesKeyValid' /\ getAesKeyValidUntil' = Undefined)
       /\ \A p \in CallIds :
            (Starts(p) /\ CacheAbsent)
                => /\ calls'[p].path = "handshake"
                   /\ IF KeyUnavailable
                      THEN calls'[p].pc = "failed" /\ calls'[p].exchanges = 0
                      ELSE calls'[p].pc = "await" /\ calls'[p].exchanges = 1]_vars

\* a key was cached, then forgotten, and with no time passed an unforced call
\* is awaiting a new handshake
C6_Witness ==
    /\ calls[1].pc = "done" /\ calls[1].path = "handshake"
    /\ advances = 0
    /\ CacheAbsent
    /\ ~isAesKeyValid /\ getAesKeyValidUntil = Undefined
    /\ calls[MaxCalls].pc = "await" /\ ~calls[MaxCalls].force
    /\ ~calls[MaxCalls].overlapped

-----------------------------------------------------------------------------
(* C7: there is no mutual exclusion.  A call that starts while another is  *)
(* awaiting its exchange, and finds no key within its time-to-live, starts *)
(* an exchange of its own; and each call that settles successfully leaves  *)
(* in the cache its own key, its own content and the timestamp of its own  *)
(* settling, so after both the cache is wholly that of the handshake that  *)
(* settled last, never a mixture.                                          *)
C7_LastHandshakeWins ==
    [][\A p \in CallIds :
          /\ (Starts(p) /\ ~CachedWithinTtl /\ \E q \in CallIds : calls[q].pc = "await")
                => (calls'[p].pc = "await" /\ calls'[p].exchanges = 1)
          /\ Succeeds(p)
                => /\ lastWriter' = p
                   /\ aesKey' = calls'[p].ret
                   /\ aesKey' = Some(HexString(KeyOfBody(calls'[p].resp)))
                   /\ aesKeyFetchedAt' = Some(clock \div MsPerSecond)
                   /\ aesKeyContentJson' = Some(calls'[p].resp.content.json)]_vars

\* two overlapping calls both fetched, with different keys at different
\* seconds; the one that started first settled last and the cache is its own
C7_Witness ==
    /\ calls[1].pc = "done" /\ calls[1].path = "handshake" /\ ~calls[1].force
    /\ calls[2].pc = "done" /\ calls[2].path = "handshake" /\ ~calls[2].force
    /\ calls[2].overlapped
    /\ calls[1].exchanges = 1 /\ calls[2].exchanges = 1
    /\ calls[1].ret # calls[2].ret
    /\ lastWriter = 1
    /\ aesKey = calls[1].ret
    /\ aesKeyContentJson = Some(calls[1].resp.content.json)
    /\ aesKeyFetchedAt = Some(clock \div MsPerSecond)
    /\ advances = MaxAdvances

-----------------------------------------------------------------------------
(* C8: the handshake fails with an APIException when the transport call    *)
(* errors or when returnMessage is not the literal SUCCESS, and in the     *)
(* latter case the exception's returnCode is returnStateInfo.returnCode.   *)
C8_ApiErrorCarriesReturnCode ==
    LET c == calls[1]
    IN  /\ (c.pc = "failed" /\ c.resp.kind \in {"error", "cancelled"})
              => c.err.errorType = "API_ERROR"
        /\ (c.pc = "failed" /\ c.resp.kind = "json" /\ c.resp.returnMessage # Some("SUCCESS"))
              => /\ c.err.errorType = "API_ERROR"
                 /\ c.err.returnCode = c.resp.returnCode

-----------------------------------------------------------------------------
(* C9: on a SUCCESS body whose content parses, the encrypted key is looked *)
(* up under both spellings: if either passowrdDes or passwordDes holds a   *)
(* value the extraction proceeds with it, and the call fails with the      *)
(* EncryptionException for a missing content or key field exactly when     *)
(* neither does (or the content is missing).                               *)
C9_BothSpellingsChecked ==
    LET c == calls[1]
        json == c.resp.content.json
        present(f) == f.st = "b64"
        eitherPresent ==
            /\ c.resp.content.st = "object"
            /\ present(json.passowrdDes) \/ present(json.passwordDes)
        missing ==
            /\ c.pc = "failed"
            /\ c.err.errorType = "ENCRYPTION_ERROR"
            /\ c.err.message \in {"Missing content in T104 response",
                                  "Missing AES key field in T104 response"}
    IN  (/\ c.pc \in {"done", "failed"}
         /\ c.resp.kind = "json"
         /\ c.resp.returnMessage = Some("SUCCESS")
         /\ c.resp.content.st # "notjson")
            => (missing <=> ~eitherPresent)

-----------------------------------------------------------------------------
(* C10: key-length normalisation.  A candidate k of 8 bytes yields         *)
(* (k ++ k)[0:16]; one of 16, 24 or 32 bytes yields k; any other yields    *)
(* its first 16 bytes; the EncryptionException is raised exactly when the  *)
(* result is not 16, 24 or 32 bytes long, which is exactly when k is       *)
(* shorter than 16 bytes and not 8 bytes long.                             *)
C10_KeyLengthNormalization ==
    normOut.st # "none" =>
        LET k == normIn
            n == Len(k)
            expected ==
                IF n = 8 THEN [i \in 1..16 |-> k[((i - 1) % 8) + 1]]
                ELSE IF n \in {16, 24, 32} THEN k
                ELSE [i \in 1..(IF n < 16 THEN n ELSE 16) |-> k[i]]
        IN  /\ (normOut.st = "EncryptionException") <=> (Len(expected) \notin {16, 24, 32})
            /\ (normOut.st = "EncryptionException") <=> (n < 16 /\ n # 8)
            /\ normOut.st = "key" => normOut.key = expected

\* an 8-byte candidate was doubled into a 16-byte key
C10_Witness ==
    /\ Len(normIn) = 8
    /\ normOut.st = "key"
    /\ Len(normOut.key) = 16
    /\ normOut.key[9] = normIn[1]

-----------------------------------------------------------------------------
(* C11: for every byte sequence x of 0..64 bytes, pkcs7Pad appends n bytes  *)
(* of value n, n = 16 - (len mod 16), which lies in 1..16 (a whole block    *)
(* of sixteen 16s when len is a multiple of 16), and                        *)
(* pkcs7Unpad(pkcs7Pad(x)) = x.                                             *)
C11_PadUnpadRoundTrip ==
    (cx.op = "pkcs7" /\ cx.stage \in {"padded", "unpadded"}) =>
        LET x == cx.data
            n == 16 - (Len(x) % 16)
        IN  /\ n \in 1..16
            /\ Len(x) % 16 = 0 => n = 16
            /\ Len(cx.padded) = Len(x) + n
            /\ Len(cx.padded) % 16 = 0
            /\ \A i \in 1..Len(x) : cx.padded[i] = x[i]
            /\ \A i \in (Len(x) + 1)..(Len(x) + n) : cx.padded[i] = n
            /\ cx.stage = "unpadded" => (cx.res.ok /\ cx.res.val = x)

\* 32 bytes that end like padding themselves got a whole extra block and
\* came back unchanged
C11_Witness ==
    /\ cx.op = "pkcs7" /\ cx.stage = "unpadded"
    /\ Len(cx.data) = 32 /\ cx.data[32] = 1
    /\ Len(cx.padded) = 48 /\ cx.padded[48] = 16
    /\ cx.res.ok /\ cx.res.val = cx.data

-----------------------------------------------------------------------------
(* C12: pkcs7Unpad is strict.  It throws an EncryptionException for the     *)
(* empty input, when the last byte is outside 1..16, when the input is      *)
(* shorter than the last byte claims, and when the bytes the last byte      *)
(* counts are not all equal to it; it returns the input without those bytes *)
(* only when the padding is well formed.                                    *)
C12_UnpadIsStrict ==
    (cx.op = "pkcs7" /\ cx.stage \in {"unpadded", "unpaddedGiven"}) =>
        LET input == IF cx.stage = "unpadded" THEN cx.padded ELSE cx.data
            len == Len(input)
            last == input[len]
            malformed ==
                \/ len = 0
                \/ last < 1 \/ last > 16
                \/ last > len
                \/ \E i \in (len - last + 1)..len : input[i] # last
        IN  /\ malformed => (~cx.res.ok /\ cx.res.err.errorType = "ENCRYPTION_ERROR")
            /\ cx.res.ok => /\ ~malformed
                            /\ Len(cx.res.val) = len - last
                            /\ \A i \in 1..(len - last) : cx.res.val[i] = input[i]
            /\ ~malformed => cx.res.ok

\* a padded block with one padding byte changed was refused
C12_Witness ==
    /\ cx.op = "pkcs7" /\ cx.stage = "unpaddedGiven"
    /\ Len(cx.data) = 16 /\ cx.data[16] = 13 /\ cx.data[15] # 13
    /\ ~cx.res.ok
    /\ cx.res.err.message = "PKCS7 padding verification failed"

-----------------------------------------------------------------------------
(* Vocabulary of the AES properties *)

\* no surrogate code unit of s is without its partner
WellFormedText(s) ==
    \A i \in 1..Len(s) :
        /\ IsHighSurrogate(s[i]) => (i < Len(s) /\ IsLowSurrogate(s[i + 1]))
        /\ IsLowSurrogate(s[i]) => (i > 1 /\ IsHighSurrogate(s[i - 1]))

\* s with U+FFFD in the place of every surrogate that has no partner
Scrubbed(s) ==
    [i \in 1..Len(s) |->
        IF IsHighSurrogate(s[i]) /\ ~(i < Len(s) /\ IsLowSurrogate(s[i + 1])) THEN 65533
        ELSE IF IsLowSurrogate(s[i]) /\ ~(i > 1 /\ IsHighSurrogate(s[i - 1])) THEN 65533
        ELSE s[i]]

ThrewEncryptionError(res) == ~res.ok /\ res.err.errorType = "ENCRYPTION_ERROR"

-----------------------------------------------------------------------------
(* C13 as stated: for every key of valid length and every plaintext,        *)
(* decryptAesEcb(encryptAesEcb(plaintext, key), key, '2', '0') returns the  *)
(* plaintext.                                                               *)
C13_Original ==
    (cx.op = "aes" /\ cx.stage = "decrypted" /\ cx.encryptCode = "2" /\ cx.zipCode = "0")
        => (cx.dec.ok /\ cx.dec.val = cx.plaintext)

(* C13 amended: ... and every plaintext in which no surrogate code unit is  *)
(* unpaired; a plaintext with unpaired surrogates comes back with U+FFFD in *)
(* their places.                                                            *)
C13_EncryptDecryptRoundTrip ==
    (cx.op = "aes" /\ cx.stage = "decrypted" /\ cx.encryptCode = "2" /\ cx.zipCode = "0")
        => /\ cx.dec.ok
           /\ WellFormedText(cx.plaintext) => cx.dec.val = cx.plaintext
           /\ cx.dec.val = Scrubbed(cx.plaintext)

\* a text of characters of two, three and four bytes came back under a
\* 24-byte key
C13_Witness ==
    /\ cx.op = "aes" /\ cx.stage = "decrypted"
    /\ cx.encryptCode = "2" /\ cx.zipCode = "0"
    /\ cx.plaintext = <<233, 8364, 55357, 56832>>
    /\ Len(normalizeAesKey(Val(cx.key))) = 24
    /\ cx.dec.ok /\ cx.dec.val = cx.plaintext

-----------------------------------------------------------------------------
(* C14: encryptAesEcb takes as its key the bytes the key text spells in     *)
(* hexadecimal when the text is hexadecimal digits spelling 16, 24 or 32    *)
(* bytes, and the UTF-8 bytes of the text otherwise; it throws an           *)
(* EncryptionException exactly when those bytes are not 16, 24 or 32; and   *)
(* the key the KeyClient has cached is taken back to the very bytes the     *)
(* handshake delivered.                                                     *)
C14_KeyTextNormalization ==
    (cx.op = "aes" /\ cx.stage \in {"encrypted", "encryptedCached"}) =>
        LET key == Val(cx.key)
            isHexDigit(c) == (c >= 48 /\ c <= 57) \/ (c >= 65 /\ c <= 70)
                                \/ (c >= 97 /\ c <= 102)
            lower(c) == IF c >= 65 /\ c <= 70 THEN c + 32 ELSE c
            asHex == /\ Len(key) \in {32, 48, 64}
                     /\ \A i \in 1..Len(key) : isHexDigit(key[i])
        IN  /\ asHex => /\ 2 * Len(cx.keyBuf) = Len(key)
                        /\ CodeUnits(HexString(cx.keyBuf))
                              = [i \in 1..Len(key) |-> lower(key[i])]
            /\ ~asHex => cx.keyBuf = Utf8Encode(key)
            /\ cx.enc.ok <=> Len(cx.keyBuf) \in {16, 24, 32}
            /\ ~cx.enc.ok => cx.enc.err.errorType = "ENCRYPTION_ERROR"
            /\ (cx.stage = "encryptedCached" /\ aesKey = Some(HexString(cx.keyBuf)))
                  => /\ cx.enc.ok
                     /\ lastWriter \in CallIds
                     /\ cx.keyBuf = KeyOfBody(calls[lastWriter].resp)
                     /\ key = CodeUnits(Val(aesKey))

\* the 24-byte key of a handshake, cached as 48 digits, was taken back to
\* its bytes and used
C14_Witness ==
    /\ cx.op = "aes" /\ cx.stage = "encryptedCached"
    /\ IsDefined(aesKey) /\ Val(cx.key) = CodeUnits(Val(aesKey))
    /\ Len(Val(cx.key)) = 48
    /\ Len(cx.keyBuf) = 24
    /\ cx.keyBuf = KeyOfBody(calls[1].resp)
    /\ cx.enc.ok

-----------------------------------------------------------------------------
(* Vocabulary of C15: the bytes decryptAesEcb works on once the text is    *)
(* base64-decoded and, for zipCode '1', decompressed                        *)
DecryptCalled == cx.op = "aes" /\ cx.stage \in {"decrypted", "decryptedGiven"}
DataReady == cx.zipCode # "1" \/ gunzipSync(Base64Decode(cx.given)).ok
DataBytes ==
    IF cx.zipCode = "1" THEN gunzipSync(Base64Decode(cx.given)).val
    ELSE Base64Decode(cx.given)
KeyGiven == IsDefined(cx.key) /\ Val(cx.key) # <<>>

\* decrypted and strictly unpadded: the text, or the EncryptionException of
\* the padding check
DecryptedAndUnpadded ==
    LET u == pkcs7Unpad(EcbDecrypt(normalizeAesKey(Val(cx.key)), DataBytes))
    IN  IF u.ok THEN cx.dec = Returned(Utf8Decode(u.val))
        ELSE ThrewEncryptionError(cx.dec)

(* C15: with encryptCode '2' decryptAesEcb throws an                        *)
(* EncryptionException if no key is given or if the (decompressed)          *)
(* ciphertext is not a multiple of 16 bytes long, and otherwise decrypts    *)
(* and strictly unpads; with any other encryptCode it returns the decoded   *)
(* (decompressed) bytes as text, undecrypted, key or no key.                *)
C15_DecryptBranchesOnEncryptCode ==
    (DecryptCalled /\ DataReady) =>
        IF cx.encryptCode = "2"
        THEN /\ ~KeyGiven => ThrewEncryptionError(cx.dec)
             /\ (KeyGiven /\ Len(DataBytes) % 16 # 0) => ThrewEncryptionError(cx.dec)
             /\ (KeyGiven /\ Len(DataBytes) % 16 = 0) => DecryptedAndUnpadded
        ELSE cx.dec = Returned(Utf8Decode(DataBytes))

-----------------------------------------------------------------------------
(* Vocabulary of the unwrapping properties *)
Unwrapped == cx.op = "unwrap" /\ cx.stage = "unwrapped"
GivenData == Val(cx.envelope.data)
\* the envelope has a non-empty content text
HasContentText ==
    /\ IsDefined(cx.envelope.data)
    /\ GivenData.content.form = "text"
    /\ GivenData.content.text # <<>>
\* a flag of dataDescription, '0' when it or the description is missing
FlagOf(name) ==
    IF ~IsDefined(GivenData.dataDescription) THEN "0"
    ELSE LET f == Val(GivenData.dataDescription)[name]
         IN  IF f = Undefined \/ f = Some("") THEN "0" ELSE Val(f)
\* the content base64-decoded and, for zipCode '1', decompressed
PlainReady == FlagOf("zipCode") # "1" \/ gunzipSync(Base64Decode(GivenData.content.text)).ok
PlainText ==
    Utf8Decode(IF FlagOf("zipCode") = "1"
               THEN gunzipSync(Base64Decode(GivenData.content.text)).val
               ELSE Base64Decode(GivenData.content.text))
NoKeyGiven == cx.key = Undefined \/ cx.key = Some(<<>>)
\* the call returned the envelope with value v as its content and the
\* description as it was
ReturnedContent(v) ==
    /\ cx.res.ok
    /\ cx.res.val = ResponseEnvelope(Some(ResponseData(ContentValue(v),
                                                       GivenData.dataDescription)))

-----------------------------------------------------------------------------
(* C16: on an envelope whose codeType is not '1' (missing counts as '0')    *)
(* unwrapResponse replaces data.content by the value parsed from the        *)
(* base64-decoded (for zipCode '1' decompressed) content, decrypts nothing  *)
(* whatever encryptCode is, and needs no key: the outcome is the same with  *)
(* any key and with none, and a payload sent in the clear comes back as it  *)
(* was.                                                                     *)
C16_PlainContentNeedsNoKey ==
    (Unwrapped /\ HasContentText /\ FlagOf("codeType") # "1" /\ PlainReady) =>
        /\ JsonParse(PlainText).ok => ReturnedContent(JsonParse(PlainText).val)
        /\ ~JsonParse(PlainText).ok => ThrewEncryptionError(cx.res)
        /\ cx.made = "plain" => ReturnedContent(cx.payload)

\* a payload sent in the clear under encryptCode '2' was returned as it was,
\* with no key
C16_Witness ==
    /\ Unwrapped /\ cx.made = "plain"
    /\ FlagOf("codeType") = "0" /\ FlagOf("encryptCode") = "2" /\ FlagOf("zipCode") = "0"
    /\ cx.key = Undefined
    /\ cx.payload # PayloadA1 /\ cx.payload # JObj(<<>>)
    /\ ReturnedContent(cx.payload)

-----------------------------------------------------------------------------
(* C17: on an envelope with non-empty content and codeType '1'              *)
(* unwrapResponse needs a key exactly when encryptCode is '2': without a    *)
(* key it throws an EncryptionException when encryptCode is '2', and when   *)
(* encryptCode is not '2' it succeeds without a key and returns the decoded *)
(* content, undecrypted.                                                    *)
C17_KeyNeededOnlyToDecrypt ==
    (Unwrapped /\ HasContentText /\ FlagOf("codeType") = "1" /\ NoKeyGiven) =>
        IF FlagOf("encryptCode") = "2" THEN ThrewEncryptionError(cx.res)
        ELSE (PlainReady /\ JsonParse(PlainText).ok)
                => ReturnedContent(JsonParse(PlainText).val)

-----------------------------------------------------------------------------
(* C18: end to end.  For every valid key K and structured payload P, the    *)
(* envelope whose content is encryptAesEcb(JSON.stringify(P), K) and whose  *)
(* dataDescription is codeType '1', encryptCode '2', zipCode '0' is         *)
(* unwrapped with K to an envelope whose content is P.                      *)
C18_EncryptedResponseRoundTrip ==
    (Unwrapped /\ cx.made = "encrypted" /\ cx.key = cx.madeWith) =>
        /\ FlagOf("codeType") = "1" /\ FlagOf("encryptCode") = "2" /\ FlagOf("zipCode") = "0"
        /\ cx.res.ok
        /\ cx.res.val.data[1].content = ContentValue(cx.payload)
        /\ ReturnedContent(cx.payload)

\* a nested payload with escaped characters came back under a 32-byte key
C18_Witness ==
    /\ Unwrapped /\ cx.made = "encrypted" /\ cx.key = cx.madeWith
    /\ Len(normalizeAesKey(Val(cx.key))) = 32
    /\ Len(Base64Decode(GivenData.content.text)) > 32
    /\ \E i \in 1..Len(cx.payload.m) : cx.payload.m[i].v.t = "obj" /\ cx.payload.m[i].v.m # <<>>
    /\ ReturnedContent(cx.payload)

-----------------------------------------------------------------------------
\* a request envelope has been built from the payload
Built == cx.op = "build" /\ cx.stage = "built" /\ cx.res.ok

\* C19: the envelope buildEncryptedRequest produces carries as data.content
\* the AES-ECB encryption of the serialized payload under the given key (it
\* is what encryptAesEcb gives for the JSON text, and decrypting it under the
\* key gives the JSON text back), its signature is the signature of that
\* encrypted text and not the signature of the JSON text, and its
\* dataDescription is exactly codeType '1', encryptCode '2', zipCode '0'.
C19_EncryptedRequestEnvelope ==
    Built =>
        LET jsonContent == JsonStringify(cx.content)
            data == cx.res.val.data
        IN  /\ data.content = encryptAesEcb(jsonContent, cx.key).val
            /\ decryptAesEcb(data.content, Some(cx.key), "2", "0") = Returned(jsonContent)
            /\ data.signature = signRsaSha1(data.content, cx.signingKey)
            /\ data.signature # signRsaSha1(jsonContent, cx.signingKey)
            /\ data.dataDescription = [codeType |-> "1", encryptCode |-> "2", zipCode |-> "0"]

\* a nested payload has been built into an envelope under a 32-byte hex key
C19_Witness ==
    /\ Built
    /\ cx.key = HexKeyText(32, 170)
    /\ cx.content.t = "obj" /\ Len(cx.content.m) = 3
    /\ Len(cx.res.val.data.content) > 0
    /\ Len(cx.res.val.data.signature) = 4

-----------------------------------------------------------------------------
\* call p has posted its handshake request
Posted(p) == calls[p].path = "handshake" /\ calls[p].exchanges >= 1

\* the request call p posted is an unencrypted T104 envelope addressed with
\* the client's tin and device number
UnencryptedT104(p) ==
    /\ IsDefined(calls[p].request)
    /\ LET request == Val(calls[p].request)
       IN  /\ request.data.dataDescription =
                 [codeType |-> "0", encryptCode |-> "1", zipCode |-> "0"]
           /\ request.globalInfo.interfaceCode = "T104"
           /\ request.globalInfo.tin = config.tin
           /\ request.globalInfo.deviceNo = config.deviceNo

\* C20 as stated: the handshake request is an unencrypted T104 envelope
\* addressed with the client's tin and device number, and it carries a
\* signature whenever the private key is loaded
C20_Original ==
    \A p \in CallIds :
        Posted(p) =>
            /\ UnencryptedT104(p)
            /\ IsDefined(privateKey) => Val(calls[p].request).data.signature # <<>>

\* C20 amended: the handshake request fetchAesKey posts is an unencrypted envelope
\* (codeType '0', encryptCode '1', zipCode '0') for the interface code T104,
\* addressed with the client's tin and device number; the private key is
\* loaded before the request is built, and because the request's content is
\* the empty list, its content and its signature are both the empty text.
C20_HandshakeRequest ==
    \A p \in CallIds :
        Posted(p) =>
            /\ UnencryptedT104(p)
            /\ IsDefined(privateKey)
            /\ Val(calls[p].request).data.content = <<>>
            /\ Val(calls[p].request).data.signature = <<>>

\* a client constructed with its own identifiers awaits the answer to the
\* request it posted with the private key loaded
C20_Witness ==
    /\ config.tin = "1017918269"
    /\ calls[1].pc = "await" /\ Posted(1)
    /\ IsDefined(privateKey)
    /\ Val(calls[1].request).globalInfo.deviceNo = "1017918269_01"

-----------------------------------------------------------------------------
(* Vocabulary of the claims about send *)

SendCalled == send.pc # "idle"
SendThrew == send.pc = "failed"
SendReturned == send.pc = "done"
\* send made a fetchAesKey call of its own
SendFetched == send.slot \in CallIds
\* the POST of the operation settled with status 200 and an envelope
Replied(data) == send.outcome = Resolved(200, data)
RepliedEncrypted == \E k \in SessionKeyTexts : Replied(EncryptedReply(k))
\* send returned the envelope with the reply's payload in the place of content
Decoded ==
    /\ SendReturned /\ send.res.ok
    /\ IsDefined(send.res.val.data)
    /\ Val(send.res.val.data).content = ContentValue(ReplyPayload)

(* C21: send with an operation name that is not in the interface mapping    *)
(* fails with an APIException of status 400 before any key fetch, handshake *)
(* or exchange for the operation.                                           *)
C21_UnknownInterfaceRejected ==
    (SendCalled /\ send.interfaceKey \notin DOMAIN INTERFACES) =>
        /\ SendThrew
        /\ send.res = Thrown(APIException("Interface not configured", Some(400), Undefined))
        /\ ~SendFetched
        /\ send.exchanges = 0

(* C22: every send for a known operation calls fetchAesKey before its       *)
(* exchange, whatever the encrypt and decrypt flags; the exchange is made   *)
(* only once that call has returned a key, and a call that throws ends the  *)
(* send with the same error and no exchange for the operation.              *)
C22_KeyBeforeExchange ==
    /\ (SendCalled /\ send.interfaceKey \in DOMAIN INTERFACES) =>
           SendFetched /\ calls[send.slot].pc # "idle"
    /\ send.exchanges >= 1 =>
           /\ SendFetched
           /\ calls[send.slot].pc = "done"
           /\ TruthyStr(calls[send.slot].ret)
    /\ (SendFetched /\ calls[send.slot].pc = "failed" /\ send.pc # "key") =>
           /\ SendThrew
           /\ send.res = Thrown(calls[send.slot].err)
           /\ send.exchanges = 0
           /\ send.request = Undefined

\* a send with both flags false awaits its exchange after a handshake of its own
C22_Witness ==
    /\ send.pc = "post" /\ ~send.encrypt /\ ~send.decrypt
    /\ send.interfaceKey = "billing_upload"
    /\ calls[send.slot].path = "handshake" /\ calls[send.slot].exchanges = 1

(* C23: the key reaches unwrapResponse only when decrypt is true.  With     *)
(* decrypt false a reply in the clear is still decoded, and a reply that is *)
(* encrypted (codeType 1, encryptCode 2, content not empty) makes send fail *)
(* with an EncryptionException; with decrypt true a reply encrypted under   *)
(* the key of the send is decrypted and decoded.                            *)
C23_KeyOnlyWhenDecrypt ==
    /\ Replied(PlainReply) => Decoded
    /\ (~send.decrypt /\ RepliedEncrypted) => SendThrew /\ ThrewEncryptionError(send.res)
    /\ (send.decrypt /\ IsDefined(send.aesKey)
        /\ Replied(EncryptedReply(CodeUnits(Val(send.aesKey))))) => Decoded

\* a send without decrypt got a reply encrypted under its own key and threw
C23_Witness ==
    /\ SendThrew /\ ~send.decrypt /\ send.encrypt
    /\ IsDefined(send.aesKey)
    /\ Replied(EncryptedReply(CodeUnits(Val(send.aesKey))))
    /\ ThrewEncryptionError(send.res)

(* C24: send makes a single exchange for the operation and never retries.   *)
(* A transport failure or a status other than 200 is thrown as an           *)
(* APIException carrying the transport status (0 when there was no          *)
(* response), with no second exchange and no forced key refresh.            *)
C24_SingleExchange ==
    /\ send.exchanges <= 1
    /\ SendFetched => ~calls[send.slot].force
    /\ send.outcome.kind # "none" => send.pc \in {"done", "failed"} /\ send.exchanges = 1
    /\ (send.outcome.kind \in {"error", "rejected"}
        \/ (send.outcome.kind = "resolved" /\ send.outcome.status # 200)) =>
           /\ SendThrew
           /\ send.res.err.name = "APIException"
           /\ send.res.err.errorType = "API_ERROR"
           /\ send.res.err.statusCode = Some(send.outcome.status)

\* the server answered 500 and send threw after its one exchange
C24_Witness ==
    /\ SendThrew /\ send.outcome = Rejected(500)
    /\ send.res.err.statusCode = Some(500)
    /\ send.exchanges = 1

(* C28: within one send the key its fetchAesKey call returned is the key    *)
(* the request is encrypted with and, when decrypt is true, the key the     *)
(* reply is decrypted with, whatever happens to the cache meanwhile; and    *)
(* with encrypt true the request is always an encrypted envelope.           *)
C28_OneKeyPerSend ==
    send.exchanges = 1 =>
        /\ send.aesKey = calls[send.slot].ret
        /\ send.encrypt =>
              /\ send.builder = "encrypted"
              /\ Val(send.request).data.dataDescription = DataDescription("1", "2", "0")
              /\ Val(send.request).data.content =
                     encryptAesEcb(JsonStringify(send.payload),
                                   CodeUnits(Val(calls[send.slot].ret))).val
        /\ (send.decrypt /\ Replied(EncryptedReply(CodeUnits(Val(calls[send.slot].ret))))) =>
              Decoded

\* the cache was refreshed to another key while the send was under way, and
\* the send decrypted the reply with the key it had fetched
C28_Witness ==
    /\ SendReturned /\ send.encrypt /\ send.decrypt
    /\ IsDefined(send.aesKey)
    /\ IsDefined(aesKey) /\ aesKey # send.aesKey
    /\ Replied(EncryptedReply(CodeUnits(Val(send.aesKey))))
    /\ Decoded

(* C25: every failure of loadPrivateKey, fetchAesKey or send reaches the    *)
(* caller as an error of exactly one of the three kinds, and a failure to   *)
(* load the private key (file missing, wrong password, no key) as an        *)
(* AuthenticationException.                                                 *)
SdkErrorTypes == {"AUTHENTICATION_ERROR", "ENCRYPTION_ERROR", "API_ERROR"}
C25_OnlySdkErrors ==
    /\ \A p \in CallIds :
          calls[p].pc = "failed" =>
              /\ calls[p].err.errorType \in SdkErrorTypes
              /\ pfx # "ok" => calls[p].err.errorType = "AUTHENTICATION_ERROR"
    /\ SendThrew => send.res.err.errorType \in SdkErrorTypes

(* C26: key refreshes are single-flight: at most one handshake is awaiting  *)
(* its answer at any time, and calls that overlapped and returned got the   *)
(* same key.                                                                *)
C26_SingleFlight ==
    /\ Cardinality({p \in CallIds : calls[p].pc = "await"}) <= 1
    /\ \A p, q \in CallIds :
          (calls[p].pc = "done" /\ calls[q].pc = "done" /\ calls[q].overlapped) =>
              calls[p].ret = calls[q].ret

(* C27: every operation name a convenience method of Client passes to send  *)
(* is a key of the interface mapping, so no convenience method fails with   *)
(* the APIException 'Interface not configured'.                             *)
C27_ConvenienceNamesConfigured ==
    SendCalled =>
        /\ send.interfaceKey \in DOMAIN INTERFACES
        /\ ~(SendThrew /\ send.res.err.message = "Interface not configured")

(* C29: a handshake that was in flight when forgetAesKey was called still   *)
(* writes its key, timestamp and content into the cache when it succeeds,   *)
(* so the cache is populated again although no fetchAesKey call was started *)
(* after the forgetting.                                                    *)
C29_InFlightHandshakeRepopulates ==
    \A p \in CallIds :
        (cx.op = "forget" /\ p \in cx.inFlight /\ calls[p].pc = "done") =>
            /\ IsDefined(aesKey) /\ IsDefined(aesKeyFetchedAt) /\ IsDefined(aesKeyContentJson)
            /\ lastWriter = p =>
                  /\ aesKey = calls[p].ret
                  /\ aesKeyContentJson = Some(calls[p].resp.content.json)

\* the cache held the key of call 1 and was cleared while call 2 awaited its
\* answer; call 2 then succeeded, no call was started since, and the cache
\* holds the key of call 2
C29_Witness ==
    /\ cx.op = "forget" /\ cx.inFlight = {2}
    /\ calls[1].pc = "done" /\ calls[1].path = "handshake"
    /\ calls[2].pc = "done"
    /\ {p \in CallIds : calls[p].pc # "idle"} = cx.started
    /\ IsDefined(aesKey) /\ aesKey = calls[2].ret /\ aesKey # calls[1].ret

(* C30: refreshAesKeyIfNeeded agrees with isAesKeyValid: when the key is    *)
(* absent or not valid (now - fetchedAt >= ttl) it fetches and returns      *)
(* true, otherwise it fetches nothing and returns false; so when it has     *)
(* returned the cached key is valid.                                        *)
C30_RefreshAgreesWithIsValid ==
    /\ refresh.pc # "idle" => (refresh.validAtStart <=> refresh.slot = 0)
    /\ refresh.pc = "done" =>
          /\ refresh.ret = ~refresh.validAtStart
          /\ refresh.validAtEnd

====
